---- MODULE Spec2Model ----
(***************************************************************************)
(* Model of the spectral analyzer's remote-session engine (core/sane.py,   *)
(* core/spectral_analyzer.py): the prompt-driven handshake of sane_select, *)
(* the command/response exchange of run_amos_enb, run_amos_sc_fdd,         *)
(* check_directory_exists and read_logfile over one interactive channel,   *)
(* and the AMOS output parser parse_prb_data.                              *)
(*                                                                         *)
(* Text is modelled line by line.  A line received from the remote side is *)
(* a record [seq, of, what, txt]: seq is the position, in the list of      *)
(* texts sent on that channel, of the command the line answers (0 for the  *)
(* login dialogue), of is that command, what is the shape the code's       *)
(* patterns look at, txt is the log line it carries.                       *)
(***************************************************************************)
EXTENDS Integers, Sequences, FiniteSets, TLC

\* ------------------------------------------------------------------ bounds
MaxRuns == 1        \* analyses started (each opens one channel)
MaxLines == 4       \* body lines of a text handed to the parser
MaxBlocks == 3      \* blocks of AMOS output in a stored log
MaxBanner == 4      \* lines the remote side emits during one login dialogue
Tick == 10          \* seconds the wall clock advances in one step

\* --------------------------------------------------------------- constants
timeout == 30       \* _wait_for_prompt(..., timeout=30)
grace == 5          \* "no new data for 5 seconds"

VARIABLES
    ssh,                \* SANE.ssh is set (sane_authentication succeeded)
    sane_channel,       \* SANE.channel: 0 is None, else the channel's id
    channel,            \* sane_select's local channel (0: none)
    output,             \* SANE.output, the buffer of _wait_for_prompt
    diag,               \* the buffer last logged by "TIMEOUT! Full output"
    clock,              \* time.time() - start_time of the wait in progress
    last_output_time,   \* last_output_time - start_time
    pc,                 \* where the GUI thread is
    reading,            \* inside read_channel_output / read_logfile's loop
    sleeping,           \* inside time.sleep(0.1) of such a loop
    out,                \* the loop's local output / content
    mode,               \* "enb" (process_enb) or "pairs" (process_all_pairs)
    remote_user,        \* SpectralAnalyzer.remote_user ("" : attribute unset)
    log_path,           \* SpectralAnalyzer.log_path (0: '')
    logfile_contents,   \* SpectralAnalyzer.logfile_contents
    have_contents,      \* logfile_contents is not None
    result,             \* what the last process_* call returned
    opened,             \* analyses started; the latest one's channel has this id
    sent,               \* per channel: the texts sent, in order
    sinceWait,          \* per channel: sends since the last completed wait
    wire,               \* per channel: lines sent by the remote, not yet received
    stage,              \* per channel: prompts of the login dialogue printed so far
    echoes,             \* remote: the terminal echoes what it is sent
    banner,             \* per channel: lines printed by the login dialogue in progress
    served,             \* per channel: texts of sent the remote has taken up
    resp,               \* per channel: pieces of the response still to arrive
    dirExists,          \* remote: the log directory exists
    rfile,              \* remote: log file of each run
    promptShape,        \* remote: shape of the shell prompt
    malformed,          \* remote: it answered an AMOS run without log path or log text
    sector_cell_pairs,  \* SpectralAnalyzer.sector_cell_pairs
    readings,           \* SpectralAnalyzer.readings
    sector_stopfile_times,  \* SpectralAnalyzer.sector_stopfile_times
    rendered,           \* what draw_power_bars handed to the plot window
    processed,          \* the targets process_sector_cell was called for, this run
    dup_log,            \* what _check_duplicates wrote to the debug log, this run
    ensured,            \* what ensure_connection returned to the last process_* call
    input_text,         \* parser check: the text block given to parse_prb_data
    target_sc,          \* parser check: its sc argument
    target_cell,        \* parser check: its cell argument
    parsed,             \* parser check: parse_prb_data has run
    calc_stamp,         \* calibration check: the stopfile time stored for the sector
    calc_power,         \* calibration check: the raw power of a reading
    calc_samples,       \* calibration check: what calculate_samples returned
    calc_dbm,           \* calibration check: what calculate_power returned
    calc_pc,            \* calibration check: how far it has run
    enb_id,             \* SpectralAnalyzer.enb_id (<<>>: None)
    command,            \* configuration check: the AMOS command last constructed
    config_pc           \* configuration check: how far it has run

sessionVars == <<ssh, sane_channel, channel, output, diag, clock, last_output_time,
                 pc, reading, sleeping, out, mode, remote_user, log_path,
                 logfile_contents, have_contents, result, opened, sent, sinceWait,
                 wire, stage, echoes, banner, served, resp, dirExists, rfile, promptShape,
                 malformed>>

analysisVars == <<sector_cell_pairs, readings, sector_stopfile_times, rendered,
                  processed, dup_log, ensured>>

parseVars == <<input_text, target_sc, target_cell, parsed>>

calcVars == <<calc_stamp, calc_power, calc_samples, calc_dbm, calc_pc>>

configVars == <<enb_id, command, config_pc>>

vars == <<sessionVars, analysisVars, parseVars, calcVars, configVars>>

Channels == 1..(MaxRuns + 1)

\* the channel of an analysis that ran before the analyses Analyze counts
Earlier == MaxRuns + 1

\* --------------------------------------------------------------------- text
Other == [kind |-> "other"]

Line(n, c, w, t) == [seq |-> n, of |-> c, what |-> w, txt |-> t]

\* SANE.prompts: the shape each prompt kind is looked for
prompts == [menu |-> "menu", neid |-> "neid", bash |-> "prompt"]

IsBashPrompt(l) == l.what \in {"prompt_user", "prompt_bare"}

\* re.search(self.prompts[prompt_type], buffer)
Matches(kind, buf) ==
    \E i \in 1..Len(buf) :
        IF prompts[kind] = "prompt" THEN IsBashPrompt(buf[i])
        ELSE buf[i].what = prompts[kind]

\* re.search(r':~\$', output)
HasPrompt(buf) == \E i \in 1..Len(buf) : IsBashPrompt(buf[i])


\* ================================================================ the parser
\* Lines of an AMOS log, by the pattern of parse_prb_data that matches them.
NoneV == "None"

PrbLine(s, r, n, p) == [kind |-> "prb", sector |-> s, report |-> r, prb_num |-> n, power |-> p]
BranchLine(s, r, g, b) == [kind |-> "branch", sector |-> s, report |-> r, au_group |-> g, branch |-> b]
PortLine(g, b, r2, u, p) == [kind |-> "port", au_group |-> g, branch |-> b, r2 |-> r2, rru |-> u, port |-> p]
CellLine(c) == [kind |-> "cell", cell |-> c]
ScRefLine(s) == [kind |-> "scref", sector |-> s]
TimeLine(m, s) == [kind |-> "time", minute |-> m, second |-> s]

\* the same line with the date and the hour of its timestamp spelled out:
\* 'YYMMDD-HH:MM:SS-ZZZZ'
StampLine(d, h, m, s) ==
    [kind |-> "time", minute |-> m, second |-> s, hour |-> h, date |-> d]

\* a sample loop that takes the lines of every sector carrier
IsSample_Unfiltered(l, sc) == l.kind = "prb"

\* prb_pattern.finditer, with "if sc == '*' or sector == sc"
IsSample(l, sc) == l.kind = "prb" /\ (sc = "*" \/ l.sector = sc)

\* branch_pattern.finditer, with "if sc == '*' or sector == sc"
IsBranchRef(l, sc) == l.kind = "branch" /\ (sc = "*" \/ l.sector = sc)

\* cell_sc_pattern.search: the first header line of the cell, then the run of
\* continuation lines naming SectorCarrier={sc} that follows it at once
\* (as a pattern, '*' names no sector carrier)
CellHeaderAt(text, cell) ==
    LET hs == {i \in 1..Len(text) : text[i].kind = "cell" /\ text[i].cell = cell}
    IN  IF hs = {} THEN 0 ELSE CHOOSE i \in hs : \A j \in hs : i <= j

RECURSIVE CarrierRun(_, _, _)
CarrierRun(text, i, sc) ==
    IF i <= Len(text) /\ text[i].kind = "scref" /\ text[i].sector = sc /\ sc # "*"
    THEN <<text[i].sector>> \o CarrierRun(text, i + 1, sc)
    ELSE <<>>

\* sector_map['cell']
MappedCell(sc, cell, text) ==
    LET h == CellHeaderAt(text, cell)
        sector_carriers == CarrierRun(text, h + 1, sc)
    IN  IF h # 0 /\ (sc = "*" \/ \E k \in 1..Len(sector_carriers) : sector_carriers[k] = sc)
        THEN cell ELSE NoneV

\* the keys of sector_map['readings'], in the order the dict got them
RECURSIVE FirstSeen(_, _)
FirstSeen(samples, seen) ==
    IF samples = <<>> THEN <<>>
    ELSE IF Head(samples).report \in seen THEN FirstSeen(Tail(samples), seen)
    ELSE <<Head(samples).report>> \o FirstSeen(Tail(samples), seen \cup {Head(samples).report})

\* the last of the lines at the indices is
LastIndex(is) == IF is = {} THEN 0 ELSE CHOOSE i \in is : \A j \in is : j <= i

\* sector_map['au_group'] after the branch loop: the last assignment wins
au_group_of(sc, text) ==
    LET i == LastIndex({k \in 1..Len(text) : IsBranchRef(text[k], sc)})
    IN  IF i = 0 THEN NoneV ELSE text[i].au_group

\* sector_map['report_to_branch'].get(report)
report_to_branch(sc, text, report) ==
    LET i == LastIndex({k \in 1..Len(text) :
                           IsBranchRef(text[k], sc) /\ text[k].report = report})
    IN  IF i = 0 THEN NoneV ELSE text[i].branch

\* port_pattern.finditer, with "if au_group == sector_map['au_group']"
IsPortOf(l, g) == l.kind = "port" /\ l.au_group = g

\* sector_map['branch_info'].get(branch): (port, rru_string) of the last
\* accepted port line of the branch, index 0 when there is none
branch_info(sc, text, branch) ==
    LastIndex({k \in 1..Len(text) :
                  IsPortOf(text[k], au_group_of(sc, text)) /\ text[k].branch = branch})

\* f"RRU-R2-{rru}" if "R2" in rru_text else f"RRU-{rru}"
rru_string(l) == <<IF l.r2 THEN "RRU-R2-" ELSE "RRU-", l.rru>>

\* a parser that gives up a report when the topology check found no cell
ReadingsOfReport_NeedsCell(sc, cell, text, report) ==
    LET branch == report_to_branch(sc, text, report)
        samples == SelectSeq(text, LAMBDA l : IsSample(l, sc) /\ l.report = report)
        p == IF branch = NoneV THEN 0 ELSE branch_info(sc, text, branch)
    IN  IF branch # NoneV /\ p # 0 /\ MappedCell(sc, cell, text) # NoneV
        THEN [k \in 1..Len(samples) |->
                [report |-> <<"pmRadioRecInterferencePwrBrPrb", samples[k].prb_num>>,
                 prb_num |-> samples[k].prb_num,
                 power |-> samples[k].power,
                 rru |-> rru_string(text[p]),
                 branch |-> branch,
                 port |-> text[p].port,
                 cell |-> MappedCell(sc, cell, text),
                 sector_carrier |-> sc,
                 interference_report |-> report]]
        ELSE <<>>

\* PRBReading(...) for each sample of one report
ReadingsOfReport(sc, cell, text, report) ==
    LET branch == report_to_branch(sc, text, report)
        samples == SelectSeq(text, LAMBDA l : IsSample(l, sc) /\ l.report = report)
        p == IF branch = NoneV THEN 0 ELSE branch_info(sc, text, branch)
    IN  IF branch # NoneV /\ p # 0
        THEN [k \in 1..Len(samples) |->
                [report |-> <<"pmRadioRecInterferencePwrBrPrb", samples[k].prb_num>>,
                 prb_num |-> samples[k].prb_num,
                 power |-> samples[k].power,
                 rru |-> rru_string(text[p]),
                 branch |-> branch,
                 port |-> text[p].port,
                 cell |-> MappedCell(sc, cell, text),
                 sector_carrier |-> sc,
                 interference_report |-> report]]
        ELSE <<>>

RECURSIVE JoinReports(_, _, _, _)
JoinReports(sc, cell, text, reports) ==
    IF reports = <<>> THEN <<>>
    ELSE ReadingsOfReport(sc, cell, text, Head(reports))
         \o JoinReports(sc, cell, text, Tail(reports))

\* self.readings after parse_prb_data(sc, cell, output)
parse_prb_data(sc, cell, text) ==
    JoinReports(sc, cell, text,
                FirstSeen(SelectSeq(text, LAMBDA l : IsSample(l, sc)), {}))

\* parse_stopfile_time: the first timestamp line after a line that contains
\* 'SectorCarrier={sector},' (0: None)
parse_stopfile_time(text, sector) ==
    LET ss == {i \in 1..Len(text) :
                  text[i].kind \in {"prb", "branch"} /\ text[i].sector = sector}
        ts == {i \in 1..Len(text) :
                  /\ text[i].kind = "time"
                  /\ \E j \in ss : j < i}
    IN  IF ts = {} THEN 0 ELSE CHOOSE i \in ts : \A j \in ts : i <= j



\* ------------------------------------------------------- the texts checked
Sectors == {"S1", "S2"}
SectorOrder == <<"S1", "S2">>       \* sorted(...) of sector carrier ids
CellOrder == <<"C1", "C2">>         \* sorted(...) of cell ids

NoTime == [kind |-> "none"]
NoTimes == [s \in Sectors \cup {"*"} |-> NoTime]

\* sample lines: two reports of S1, one of them with two PRBs, and one of S2
SampleLines == { PrbLine("S1", 1, 0, 5), PrbLine("S1", 1, 1, 6),
                 PrbLine("S1", 2, 0, 7), PrbLine("S2", 1, 0, 9) }

\* branch references: into two antenna unit groups that number their
\* branches alike
BranchLines == { BranchLine("S1", 1, "A", "1"), BranchLine("S1", 2, "B", "1"),
                 BranchLine("S2", 1, "B", "1") }

\* port references, one for each group, one of them with the RRU-R2- prefix
PortLines == { PortLine("A", "1", FALSE, "1", "A"), PortLine("B", "1", TRUE, "2", "C") }

\* the cell's header with its two bound sector carriers, as AMOS prints it
CellBlock == <<CellLine("C1"), ScRefLine("S1"), ScRefLine("S2")>>

\* a whole log: one cell, one sector carrier, one report, a timestamp
LogOneCell == <<CellLine("C1"), ScRefLine("S1"), PrbLine("S1", 1, 0, 5),
                BranchLine("S1", 1, "A", "1"), PortLine("A", "1", FALSE, "1", "A"),
                TimeLine(1, 1)>>

\* the pair lists analyze passes to set_pairs_and_enbid
PairLists == { << <<"S1", "C1">> >>, << <<"*", "C1">> >> }

\* ------------------------------------------------------------- remote side
\* Log texts the remote AMOS session may write (and print) in a run
\* the same log without its timestamp
LogNoStamp == SubSeq(LogOneCell, 1, Len(LogOneCell) - 1)

SessionLogs == { <<>>, LogOneCell, LogNoStamp }

PromptLine(n, c) ==
    Line(n, c, IF promptShape = "user" THEN "prompt_user" ELSE "prompt_bare", Other)

Tagged(n, c, w, text) == [i \in 1..Len(text) |-> Line(n, c, w, text[i])]

\* What the remote shell prints for the n-th text sent on a channel, in the
\* pieces it arrives in: the terminal echo of the command with its output,
\* and, once the command is done, the next prompt.
Response(n, cmd, ok, content) ==
    LET echo == IF echoes THEN <<Line(n, cmd.text, "echo", Other)>> ELSE <<>>
        body ==
            CASE cmd.text = "test" ->
                    <<Line(n, "test", IF dirExists THEN "EXISTS_YEP" ELSE "NOT_EXISTS", Other)>>
              [] cmd.text = "amos" ->
                    Tagged(n, "amos", "out", content)
                    \o (IF ok THEN <<Line(n, "amos", "logfile", [kind |-> "path", path |-> cmd.arg])>>
                        ELSE <<>>)
              [] cmd.text = "cat" -> Tagged(n, "cat", "log", rfile[cmd.arg])
              [] OTHER -> <<>>
    IN  IF cmd.text \in {"5", "neid"} THEN <<>>
        ELSE (IF echo \o body = <<>> THEN <<>> ELSE << echo \o body >>)
             \o << <<PromptLine(n, cmd.text)>> >>

\* The login dialogue of a channel: the menu program prints its menu prompt,
\* after the selection the NEID prompt, after the NEID the shell starts and
\* prints its prompt.  It may stop at any point, print other text before its
\* menu or, on input it does not like, print its menu again.
Expected(c) ==
    CASE stage[c] = 0 -> {"menu"}
      [] stage[c] = 1 -> IF \E i \in 1..Len(sent[c]) : sent[c][i].text = "5"
                         THEN {"neid"} ELSE {}
      [] stage[c] = 2 -> IF \E i \in 1..Len(sent[c]) : sent[c][i].text = "neid"
                         THEN {"bash"} ELSE {}
      [] OTHER -> {}

Stray(c) == IF stage[c] = 0 THEN {"noise"} ELSE {"menu"}

\* the first shell of the remote host starts: its prompt, its terminal
\* settings and its file system are what they are from here on
fresh(w) == w = "bash" /\ promptShape = "unset"

RemoteBanner(c) ==
    /\ channel = c
    /\ stage[c] < 3
    /\ banner[c] < MaxBanner
    /\ \E w \in Expected(c) \cup Stray(c) :
          /\ stage' = [stage EXCEPT ![c] = IF w \in Expected(c) THEN @ + 1 ELSE @]
          /\ \E shape \in (IF fresh(w) THEN {"user", "bare"} ELSE {promptShape}) :
             \E e \in (IF fresh(w) THEN BOOLEAN ELSE {echoes}) :
             \E d \in (IF fresh(w) THEN BOOLEAN ELSE {dirExists}) :
                /\ promptShape' = shape
                /\ echoes' = e
                /\ dirExists' = d
                /\ wire' = [wire EXCEPT ![c] =
                              Append(@, Line(0, "login",
                                             IF w = "bash"
                                             THEN (IF promptShape' = "user" THEN "prompt_user"
                                                   ELSE "prompt_bare")
                                             ELSE w, Other))]
          /\ banner' = [banner EXCEPT ![c] = IF w = "bash" THEN 0 ELSE @ + 1]
    /\ UNCHANGED <<ssh, sane_channel, channel, output, diag, clock, last_output_time,
                   pc, reading, sleeping, out, mode, remote_user, log_path,
                   logfile_contents, have_contents, result, opened, sent, sinceWait,
                   served, resp, rfile, malformed, analysisVars, parseVars, calcVars, configVars>>

\* The remote shell takes up the next text it was sent and runs it.
RemoteServe(c) ==
    /\ stage[c] = 3
    /\ resp[c] = <<>>
    /\ served[c] < Len(sent[c])
    /\ LET n == served[c] + 1
           cmd == sent[c][n]
       IN  /\ served' = [served EXCEPT ![c] = n]
           /\ \E ok \in (IF cmd.text = "amos" THEN BOOLEAN ELSE {TRUE}) :
              \E content \in (IF cmd.text = "amos" /\ ok THEN SessionLogs ELSE {<<>>}) :
                 /\ resp' = [resp EXCEPT ![c] = Response(n, cmd, ok, content)]
                 /\ rfile' = IF cmd.text = "amos" /\ ok
                             THEN [rfile EXCEPT ![cmd.arg] = content] ELSE rfile
                 /\ malformed' = (malformed \/ (cmd.text = "amos" /\ (~ok \/ content = <<>>)))
           /\ dirExists' = (dirExists \/ cmd.text = "mkdir")
    /\ UNCHANGED <<ssh, sane_channel, channel, output, diag, clock, last_output_time,
                   pc, reading, sleeping, out, mode, remote_user, log_path,
                   logfile_contents, have_contents, result, opened, sent, sinceWait,
                   wire, stage, echoes, banner, promptShape, analysisVars, parseVars, calcVars, configVars>>

\* The next piece of the response reaches the client's receive buffer.
RemoteEmit(c) ==
    /\ resp[c] # <<>>
    /\ wire' = [wire EXCEPT ![c] = @ \o Head(resp[c])]
    /\ resp' = [resp EXCEPT ![c] = Tail(@)]
    /\ UNCHANGED <<ssh, sane_channel, channel, output, diag, clock, last_output_time,
                   pc, reading, sleeping, out, mode, remote_user, log_path,
                   logfile_contents, have_contents, result, opened, sent, sinceWait,
                   stage, echoes, banner, served, dirExists, rfile, promptShape, malformed, analysisVars, parseVars, calcVars, configVars>>

\* --------------------------------------------------------------- the client
Cmd(t, a) == [text |-> t, arg |-> a]

\* channel.send(text), for each text of texts in turn
SendAll(c, texts) ==
    /\ sent' = [sent EXCEPT ![c] = @ \o texts]
    /\ sinceWait' = [sinceWait EXCEPT ![c] = @ + Len(texts)]

\* sane_authentication: paramiko connects, or the error box is shown
Authenticate ==
    /\ pc = "idle"
    /\ ~ssh
    /\ \E connected \in BOOLEAN : ssh' = connected
    /\ UNCHANGED <<sane_channel, channel, output, diag, clock, last_output_time,
                   pc, reading, sleeping, out, mode, remote_user, log_path,
                   logfile_contents, have_contents, result, opened, sent, sinceWait,
                   wire, stage, echoes, banner, served, resp, dirExists, rfile, promptShape, malformed, analysisVars, parseVars, calcVars, configVars>>

WaitPcs == {"WaitMenu", "WaitNeid", "WaitBash"}
KindOf(p) == CASE p = "WaitMenu" -> "menu" [] p = "WaitNeid" -> "neid" [] OTHER -> "bash"
FoundPc(p) == CASE p = "WaitMenu" -> "SendSelection" [] p = "WaitNeid" -> "SendNeid"
                [] OTHER -> "Bind"

\* analyze up to and including sane_select's open_session / invoke_shell and
\* the start of its first _wait_for_prompt
Analyze ==
    /\ pc = "idle"
    /\ ssh
    /\ opened < MaxRuns
    /\ \E ok \in BOOLEAN :
          IF ok
          THEN /\ channel' = opened + 1
               /\ pc' = "WaitMenu"
          ELSE \* open_session raises: sane_select returns None
               /\ channel' = 0
               /\ pc' = "selected"
    /\ opened' = opened + 1
    /\ output' = <<>>
    /\ clock' = 0
    /\ last_output_time' = 0
    /\ UNCHANGED <<ssh, sane_channel, diag, reading, sleeping, out, mode, remote_user,
                   log_path, logfile_contents, have_contents, result, sent, sinceWait,
                   wire, stage, echoes, banner, served, resp, dirExists, rfile, promptShape, malformed,
                   analysisVars, parseVars, calcVars, configVars>>

\* a _wait_for_prompt that takes five silent seconds for the prompt
WaitForPrompt_QuietIsFound ==
    /\ pc \in WaitPcs
    /\ LET current_time == clock
           kind == KindOf(pc)
       IN  IF current_time > timeout
           THEN \* TimeoutError, caught by sane_select: return None.  The local
                \* channel goes out of scope, what the remote side still
                \* sends on it is read by nobody.
                /\ diag' = output
                /\ pc' = "selected"
                /\ wire' = [wire EXCEPT ![channel] = <<>>]
                /\ stage' = [stage EXCEPT ![channel] = 0]
                /\ banner' = [banner EXCEPT ![channel] = 0]
                /\ channel' = 0
                /\ clock' = 0
                /\ last_output_time' = 0
                /\ UNCHANGED <<output, sinceWait>>
           ELSE IF wire[channel] # <<>>
           THEN /\ output' = output \o wire[channel]
                /\ wire' = [wire EXCEPT ![channel] = <<>>]
                /\ IF Matches(kind, output')
                   THEN /\ pc' = FoundPc(pc)
                        /\ sinceWait' = [sinceWait EXCEPT ![channel] = 0]
                        /\ clock' = 0
                        /\ last_output_time' = 0
                   ELSE /\ last_output_time' = current_time
                        /\ UNCHANGED <<pc, sinceWait, clock>>
                /\ UNCHANGED <<diag, channel, stage, banner>>
           ELSE /\ IF current_time - last_output_time > grace
                   THEN /\ pc' = FoundPc(pc)
                        /\ sinceWait' = [sinceWait EXCEPT ![channel] = 0]
                        /\ clock' = 0
                        /\ last_output_time' = 0
                   ELSE UNCHANGED <<pc, sinceWait, clock, last_output_time>>
                /\ UNCHANGED <<output, wire, diag, channel, stage, banner>>
    /\ UNCHANGED <<ssh, sane_channel, reading, sleeping, out, mode, remote_user,
                   log_path, logfile_contents, have_contents, result, opened, sent,
                   echoes, served, resp, dirExists, rfile, promptShape, malformed, analysisVars, parseVars, calcVars, configVars>>

\* One iteration of _wait_for_prompt's loop
WaitForPrompt ==
    /\ pc \in WaitPcs
    /\ LET current_time == clock
           kind == KindOf(pc)
       IN  IF current_time > timeout
           THEN \* TimeoutError, caught by sane_select: return None.  The local
                \* channel goes out of scope, what the remote side still
                \* sends on it is read by nobody.
                /\ diag' = output
                /\ pc' = "selected"
                /\ wire' = [wire EXCEPT ![channel] = <<>>]
                /\ stage' = [stage EXCEPT ![channel] = 0]
                /\ banner' = [banner EXCEPT ![channel] = 0]
                /\ channel' = 0
                /\ clock' = 0
                /\ last_output_time' = 0
                /\ UNCHANGED <<output, sinceWait>>
           ELSE IF wire[channel] # <<>>
           THEN /\ output' = output \o wire[channel]
                /\ wire' = [wire EXCEPT ![channel] = <<>>]
                /\ IF Matches(kind, output')
                   THEN /\ pc' = FoundPc(pc)
                        /\ sinceWait' = [sinceWait EXCEPT ![channel] = 0]
                        /\ clock' = 0
                        /\ last_output_time' = 0
                   ELSE /\ last_output_time' = current_time
                        /\ UNCHANGED <<pc, sinceWait, clock>>
                /\ UNCHANGED <<diag, channel, stage, banner>>
           ELSE /\ IF current_time - last_output_time > grace /\ Matches(kind, output)
                   THEN /\ pc' = FoundPc(pc)
                        /\ sinceWait' = [sinceWait EXCEPT ![channel] = 0]
                        /\ clock' = 0
                        /\ last_output_time' = 0
                   ELSE UNCHANGED <<pc, sinceWait, clock, last_output_time>>
                /\ UNCHANGED <<output, wire, diag, channel, stage, banner>>
    /\ UNCHANGED <<ssh, sane_channel, reading, sleeping, out, mode, remote_user,
                   log_path, logfile_contents, have_contents, result, opened, sent,
                   echoes, served, resp, dirExists, rfile, promptShape, malformed, analysisVars, parseVars, calcVars, configVars>>

\* Wall-clock time passes while _wait_for_prompt polls
TickClock ==
    /\ pc \in WaitPcs
    /\ clock <= timeout
    /\ clock' = clock + Tick
    /\ UNCHANGED <<ssh, sane_channel, channel, output, diag, last_output_time,
                   pc, reading, sleeping, out, mode, remote_user, log_path,
                   logfile_contents, have_contents, result, opened, sent, sinceWait,
                   wire, stage, echoes, banner, served, resp, dirExists, rfile, promptShape, malformed, analysisVars, parseVars, calcVars, configVars>>

\* channel.send('5') and the start of the wait for the NEID prompt
SendSelection ==
    /\ pc = "SendSelection"
    /\ SendAll(channel, <<Cmd("5", 0)>>)
    /\ pc' = "WaitNeid"
    /\ output' = <<>>
    /\ UNCHANGED <<ssh, sane_channel, channel, diag, clock, last_output_time,
                   reading, sleeping, out, mode, remote_user, log_path,
                   logfile_contents, have_contents, result, opened,
                   wire, stage, echoes, banner, served, resp, dirExists, rfile, promptShape, malformed, analysisVars, parseVars, calcVars, configVars>>

\* a sane_select that binds the channel when it sends the NEID
SendNeid_BindsEarly ==
    /\ pc = "SendNeid"
    /\ SendAll(channel, <<Cmd("neid", 0)>>)
    /\ pc' = "WaitBash"
    /\ output' = <<>>
    /\ sane_channel' = channel
    /\ UNCHANGED <<ssh, channel, diag, clock, last_output_time,
                   reading, sleeping, out, mode, remote_user, log_path,
                   logfile_contents, have_contents, result, opened,
                   wire, stage, echoes, banner, served, resp, dirExists, rfile, promptShape, malformed, analysisVars, parseVars, calcVars, configVars>>

\* channel.send(f'{enm_server_id}\n') and the start of the wait for the shell
SendNeid ==
    /\ pc = "SendNeid"
    /\ SendAll(channel, <<Cmd("neid", 0)>>)
    /\ pc' = "WaitBash"
    /\ output' = <<>>
    /\ UNCHANGED <<ssh, sane_channel, channel, diag, clock, last_output_time,
                   reading, sleeping, out, mode, remote_user, log_path,
                   logfile_contents, have_contents, result, opened,
                   wire, stage, echoes, banner, served, resp, dirExists, rfile, promptShape, malformed, analysisVars, parseVars, calcVars, configVars>>

\* self.channel = channel; return channel
Bind ==
    /\ pc = "Bind"
    /\ sane_channel' = channel
    /\ channel' = 0
    /\ pc' = "selected"
    /\ UNCHANGED <<ssh, output, diag, clock, last_output_time,
                   reading, sleeping, out, mode, remote_user, log_path,
                   logfile_contents, have_contents, result, opened, sent, sinceWait,
                   wire, stage, echoes, banner, served, resp, dirExists, rfile, promptShape, malformed, analysisVars, parseVars, calcVars, configVars>>


\* ============================================================ an analysis run
\* SANE.ensure_connection, which process_enb and process_all_pairs call: the
\* SSH connection is there and still alive
ensure_connection(alive) == ssh /\ alive

\* get_username_from_prompt: a prompt of the shape user@host:~$ (or
\* user@host:MARKET:~$) is in the output
HasUser(buf) == \E i \in 1..Len(buf) : buf[i].what = "prompt_user"

\* "EXISTS_YEP" in output: the test's answer, or the echo of the test command
\* itself, which spells echo "EXISTS_YEP"
ContainsExistsYep(buf) ==
    \E i \in 1..Len(buf) :
        \/ buf[i].what = "EXISTS_YEP"
        \/ buf[i].what = "echo" /\ buf[i].of = "test"

\* the first line of the output that starts with '$logfile = ' (0: none)
LogfileLineAt(buf) ==
    LET is == {i \in 1..Len(buf) : buf[i].what = "logfile"}
    IN  IF is = {} THEN 0 ELSE CHOOSE i \in is : \A j \in is : i <= j

\* the start of read_channel_output (or of read_logfile's loop) after a send
StartRead ==
    /\ out' = <<>>
    /\ reading' = TRUE

\* a process_* that goes on although ensure_connection returned False
StartProcess_IgnoresEnsure(m, pairs) ==
    /\ pc = "selected"
    /\ mode' = m
    /\ sector_cell_pairs' = IF m = "pairs" THEN pairs ELSE sector_cell_pairs
    /\ processed' = <<>>
    /\ dup_log' = <<>>
    /\ \E alive \in BOOLEAN :
       /\ ensured' = ensure_connection(alive)
       /\ logfile_contents' = <<>>
       /\ have_contents' = FALSE
       /\ readings' = <<>>
       /\ sector_stopfile_times' = NoTimes
       /\ IF sane_channel = 0
          THEN /\ result' = "False"
               /\ pc' = "idle"
               /\ UNCHANGED <<sent, sinceWait, out, reading>>
          ELSE IF m = "enb" \/ remote_user = ""
          THEN /\ SendAll(sane_channel, <<Cmd("nl", 0)>>)
               /\ StartRead
               /\ pc' = IF m = "enb" THEN "enb_user" ELSE "sc_user"
               /\ UNCHANGED result
          ELSE /\ SendAll(sane_channel, <<Cmd("amos", opened), Cmd("amos", opened)>>)
               /\ StartRead
               /\ pc' = "sc_cmd"
               /\ UNCHANGED result
    /\ UNCHANGED <<ssh, sane_channel, channel, output, diag, clock, last_output_time,
                   sleeping, remote_user, log_path, opened,
                   wire, stage, echoes, banner, served, resp, dirExists, rfile, promptShape, malformed,
                   rendered, parseVars, calcVars, configVars>>

\* a clear_analysis_state that leaves sector_stopfile_times as it was
StartProcess_KeepsTimes(m, pairs) ==
    /\ pc = "selected"
    /\ mode' = m
    /\ sector_cell_pairs' = IF m = "pairs" THEN pairs ELSE sector_cell_pairs
    /\ processed' = <<>>
    /\ dup_log' = <<>>
    /\ \E alive \in BOOLEAN :
       /\ ensured' = ensure_connection(alive)
       /\ IF ~ensure_connection(alive)
          THEN \* ConnectionError, caught: return False
               /\ result' = "False"
               /\ pc' = "idle"
               /\ UNCHANGED <<logfile_contents, have_contents, sent, sinceWait, out,
                              reading, readings, sector_stopfile_times>>
          ELSE \* clear_analysis_state, then run_amos_enb / run_amos_sc_fdd
               /\ logfile_contents' = <<>>
               /\ have_contents' = FALSE
               /\ readings' = <<>>
               /\ UNCHANGED sector_stopfile_times
               /\ IF sane_channel = 0
                  THEN \* ConnectionError("No active SANE session"), caught
                       /\ result' = "False"
                       /\ pc' = "idle"
                       /\ UNCHANGED <<sent, sinceWait, out, reading>>
                  ELSE IF m = "enb" \/ remote_user = ""
                  THEN /\ SendAll(sane_channel, <<Cmd("nl", 0)>>)
                       /\ StartRead
                       /\ pc' = IF m = "enb" THEN "enb_user" ELSE "sc_user"
                       /\ UNCHANGED result
                  ELSE /\ SendAll(sane_channel, <<Cmd("amos", opened), Cmd("amos", opened)>>)
                       /\ StartRead
                       /\ pc' = "sc_cmd"
                       /\ UNCHANGED result
    /\ UNCHANGED <<ssh, sane_channel, channel, output, diag, clock, last_output_time,
                   sleeping, remote_user, log_path, opened,
                   wire, stage, echoes, banner, served, resp, dirExists, rfile, promptShape, malformed,
                   rendered, parseVars, calcVars, configVars>>

\* analyze after sane_select: process_enb (no cell given) or
\* set_pairs_and_enbid and process_all_pairs, up to the first send of run_amos_*
StartProcess(m, pairs) ==
    /\ pc = "selected"
    /\ mode' = m
    /\ sector_cell_pairs' = IF m = "pairs" THEN pairs ELSE sector_cell_pairs
    /\ processed' = <<>>
    /\ dup_log' = <<>>
    /\ \E alive \in BOOLEAN :
       /\ ensured' = ensure_connection(alive)
       /\ IF ~ensure_connection(alive)
          THEN \* ConnectionError, caught: return False
               /\ result' = "False"
               /\ pc' = "idle"
               /\ UNCHANGED <<logfile_contents, have_contents, sent, sinceWait, out,
                              reading, readings, sector_stopfile_times>>
          ELSE \* clear_analysis_state, then run_amos_enb / run_amos_sc_fdd
               /\ logfile_contents' = <<>>
               /\ have_contents' = FALSE
               /\ readings' = <<>>
               /\ sector_stopfile_times' = NoTimes
               /\ IF sane_channel = 0
                  THEN \* ConnectionError("No active SANE session"), caught
                       /\ result' = "False"
                       /\ pc' = "idle"
                       /\ UNCHANGED <<sent, sinceWait, out, reading>>
                  ELSE IF m = "enb" \/ remote_user = ""
                  THEN /\ SendAll(sane_channel, <<Cmd("nl", 0)>>)
                       /\ StartRead
                       /\ pc' = IF m = "enb" THEN "enb_user" ELSE "sc_user"
                       /\ UNCHANGED result
                  ELSE /\ SendAll(sane_channel, <<Cmd("amos", opened), Cmd("amos", opened)>>)
                       /\ StartRead
                       /\ pc' = "sc_cmd"
                       /\ UNCHANGED result
    /\ UNCHANGED <<ssh, sane_channel, channel, output, diag, clock, last_output_time,
                   sleeping, remote_user, log_path, opened,
                   wire, stage, echoes, banner, served, resp, dirExists, rfile, promptShape, malformed,
                   rendered, parseVars, calcVars, configVars>>

\* One iteration of the loop of read_channel_output and of read_logfile:
\* receive what is there, stop once the shell prompt is in the output
ReadLoop ==
    /\ reading
    /\ ~sleeping
    /\ IF wire[sane_channel] # <<>>
       THEN /\ out' = out \o wire[sane_channel]
            /\ wire' = [wire EXCEPT ![sane_channel] = <<>>]
            /\ IF HasPrompt(out')
               THEN /\ reading' = FALSE
                    /\ sinceWait' = [sinceWait EXCEPT ![sane_channel] = 0]
                    /\ UNCHANGED sleeping
               ELSE /\ sleeping' = TRUE
                    /\ UNCHANGED <<reading, sinceWait>>
       ELSE /\ sleeping' = TRUE
            /\ UNCHANGED <<out, wire, reading, sinceWait>>
    /\ UNCHANGED <<ssh, sane_channel, channel, output, diag, clock, last_output_time,
                   pc, mode, remote_user, log_path, logfile_contents, have_contents,
                   result, opened, sent, stage, echoes, banner, served, resp, dirExists,
                   rfile, promptShape, malformed, analysisVars, parseVars, calcVars, configVars>>

read_channel_output ==
    /\ pc # "read_logfile"
    /\ ReadLoop

read_logfile_loop ==
    /\ pc = "read_logfile"
    /\ ReadLoop

\* time.sleep(0.1) of those loops is over
Wake ==
    /\ sleeping
    /\ sleeping' = FALSE
    /\ UNCHANGED <<ssh, sane_channel, channel, output, diag, clock, last_output_time,
                   pc, reading, out, mode, remote_user, log_path,
                   logfile_contents, have_contents, result, opened, sent, sinceWait,
                   wire, stage, echoes, banner, served, resp, dirExists, rfile, promptShape, malformed, analysisVars, parseVars, calcVars, configVars>>

\* run_amos_enb / run_amos_sc_fdd after the prompt that answers '\n'
GotUser ==
    /\ pc \in {"enb_user", "sc_user"}
    /\ ~reading
    /\ IF ~HasUser(out)
       THEN \* ValueError, re-raised, caught by process_*: return False
            /\ result' = "False"
            /\ pc' = "idle"
            /\ UNCHANGED <<remote_user, sent, sinceWait, out, reading>>
       ELSE /\ remote_user' = "user"
            /\ IF pc = "enb_user"
               THEN \* check_directory_exists
                    /\ SendAll(sane_channel, <<Cmd("test", 0)>>)
                    /\ pc' = "enb_dir"
               ELSE \* the command is sent twice
                    /\ SendAll(sane_channel, <<Cmd("amos", opened), Cmd("amos", opened)>>)
                    /\ pc' = "sc_cmd"
            /\ StartRead
            /\ UNCHANGED result
    /\ UNCHANGED <<ssh, sane_channel, channel, output, diag, clock, last_output_time,
                   sleeping, mode, log_path, logfile_contents, have_contents, opened,
                   wire, stage, echoes, banner, served, resp, dirExists, rfile, promptShape, malformed, analysisVars, parseVars, calcVars, configVars>>

\* run_amos_enb after check_directory_exists has its answer
CheckedDirectory ==
    /\ pc = "enb_dir"
    /\ ~reading
    /\ IF ~ContainsExistsYep(out)
       THEN /\ SendAll(sane_channel, <<Cmd("mkdir", 0)>>)
            /\ pc' = "enb_mkdir"
       ELSE /\ SendAll(sane_channel, <<Cmd("amos", opened)>>)
            /\ pc' = "enb_cmd"
    /\ StartRead
    /\ UNCHANGED <<ssh, sane_channel, channel, output, diag, clock, last_output_time,
                   sleeping, mode, remote_user, log_path, logfile_contents,
                   have_contents, result, opened,
                   wire, stage, echoes, banner, served, resp, dirExists, rfile, promptShape, malformed, analysisVars, parseVars, calcVars, configVars>>

\* run_amos_enb after mkdir -p has been answered
MadeDirectory ==
    /\ pc = "enb_mkdir"
    /\ ~reading
    /\ SendAll(sane_channel, <<Cmd("amos", opened)>>)
    /\ pc' = "enb_cmd"
    /\ StartRead
    /\ UNCHANGED <<ssh, sane_channel, channel, output, diag, clock, last_output_time,
                   sleeping, mode, remote_user, log_path, logfile_contents,
                   have_contents, result, opened,
                   wire, stage, echoes, banner, served, resp, dirExists, rfile, promptShape, malformed, analysisVars, parseVars, calcVars, configVars>>

\* run_amos_* after the command's output was read: take the log file's path,
\* then read_logfile up to its send of 'cat <logfile>'
GotCommandOutput ==
    /\ pc \in {"enb_cmd", "sc_cmd"}
    /\ ~reading
    /\ LET i == LogfileLineAt(out)
       IN  IF i = 0
           THEN /\ result' = "False"
                /\ pc' = "idle"
                /\ UNCHANGED <<log_path, sent, sinceWait, out, reading>>
           ELSE /\ log_path' = out[i].txt.path
                /\ SendAll(sane_channel, <<Cmd("cat", out[i].txt.path)>>)
                /\ StartRead
                /\ pc' = "read_logfile"
                /\ UNCHANGED result
    /\ UNCHANGED <<ssh, sane_channel, channel, output, diag, clock, last_output_time,
                   sleeping, mode, remote_user, logfile_contents, have_contents, opened,
                   wire, stage, echoes, banner, served, resp, dirExists, rfile, promptShape, malformed, analysisVars, parseVars, calcVars, configVars>>

\* content.splitlines()[1:-1]
StripEchoAndPrompt(content) == SubSeq(content, 2, Len(content) - 1)

\* read_logfile after its loop: store the cleaned content
StoreLogfile ==
    /\ pc = "read_logfile"
    /\ ~reading
    /\ logfile_contents' = StripEchoAndPrompt(out)
    /\ have_contents' = TRUE
    /\ pc' = "process_targets"
    /\ UNCHANGED <<ssh, sane_channel, channel, output, diag, clock, last_output_time,
                   reading, sleeping, out, mode, remote_user, log_path, result, opened,
                   sent, sinceWait, wire, stage, echoes, banner, served, resp, dirExists,
                   rfile, promptShape, malformed, analysisVars, parseVars, calcVars, configVars>>




\* --------------------------------------------------------- target processing
TextOf(contents) == [i \in 1..Len(contents) |-> contents[i].txt]

\* sorted(set(...)) of the ids found, by the order table
Sorted(order, ids) == SelectSeq(order, LAMBDA x : x \in ids)

\* get_available_fdd: every cell id after 'EUtranCellFDD=' in the log
get_available_fdd(log) ==
    Sorted(CellOrder, {log[i].cell : i \in {j \in 1..Len(log) : log[j].kind = "cell"}})

RECURSIVE AnyCarrierRun(_, _)
AnyCarrierRun(log, i) ==
    IF i <= Len(log) /\ log[i].kind = "scref"
    THEN {log[i].sector} \cup AnyCarrierRun(log, i + 1)
    ELSE {}

\* get_available_sc: the sector carriers bound to the cell
get_available_sc(log, cell) ==
    LET h == CellHeaderAt(log, cell)
    IN  IF h = 0 THEN <<>> ELSE Sorted(SectorOrder, AnyCarrierRun(log, h + 1))

\* a sample count taken from the minute of the hour, not of the quarter
calculate_samples_NoWrap(times, sector) ==
    IF times[sector] = NoTime THEN 0
    ELSE LET minutes == times[sector].minute
             seconds == times[sector].second
         IN  (((60 * minutes) + seconds) * 1000) \div 40

\* calculate_samples, from the stored timestamp of the sector
calculate_samples(times, sector) ==
    IF times[sector] = NoTime THEN 0
    ELSE LET minutes == times[sector].minute % 15
             seconds == times[sector].second
         IN  (((60 * minutes) + seconds) * 1000) \div 40

\* a calculate_power without its except clauses
calculate_power_Uncaught(power, samples) ==
    IF samples = 0 THEN [dbm |-> "ZeroDivisionError", raw |-> power, samples |-> samples]
    ELSE IF power <= 0 THEN [dbm |-> "ValueError", raw |-> power, samples |-> samples]
    ELSE [dbm |-> "10log10", raw |-> power, samples |-> samples]

\* a calculate_power applied to its own result: the logarithm of a negative
\* dBm value raises ValueError, answered with chart_min
calculate_power_Twice(power, samples) ==
    [dbm |-> "chart_min", raw |-> 0, samples |-> 0]

\* calculate_power: 10 * log10(power / samples * 2 ** -44), kept as the pair
\* it is computed from; chart_min when samples is 0 or the logarithm's
\* argument is not positive
calculate_power(power, samples) ==
    IF samples = 0 \/ power <= 0
    THEN [dbm |-> "chart_min", raw |-> 0, samples |-> 0]
    ELSE [dbm |-> "10log10", raw |-> power, samples |-> samples]

\* chart_min = -125 against the logarithm: 10 * log10(power / samples * 2 ** -44)
\* is below -125 exactly when power / samples is below 10 ** -12.5 * 2 ** 44 =
\* 5.56313..., kept as the fraction 5563 / 1000 (no quotient of the raw powers
\* and sample counts used here lies between the two)
FloorRatio == <<5563, 1000>>

\* a < b for two results of calculate_power, as the floats compare
dbm_less(a, b) ==
    IF a.dbm = "chart_min" /\ b.dbm = "chart_min" THEN FALSE
    ELSE IF a.dbm = "chart_min" THEN b.raw * FloorRatio[2] > b.samples * FloorRatio[1]
    ELSE IF b.dbm = "chart_min" THEN a.raw * FloorRatio[2] < a.samples * FloorRatio[1]
    ELSE a.raw * b.samples < b.raw * a.samples

\* parse_stopfile_time's store into sector_stopfile_times
StoreStopfileTime(times, log, sector) ==
    LET t == parse_stopfile_time(log, sector)
    IN  IF t = 0 THEN times ELSE [times EXCEPT ![sector] = log[t]]

\* the cell ids get_available_fdd finds, in the order of the log
fdds_found(log) ==
    LET hs == SelectSeq(log, LAMBDA l : l.kind = "cell")
    IN  [k \in 1..Len(hs) |-> hs[k].cell]

\* the sector carrier ids get_available_sc finds after the cell's header
RECURSIVE CarrierList(_, _)
CarrierList(log, i) ==
    IF i <= Len(log) /\ log[i].kind = "scref"
    THEN <<log[i].sector>> \o CarrierList(log, i + 1)
    ELSE <<>>

sector_carriers_found(log, cell) ==
    LET h == CellHeaderAt(log, cell)
    IN  IF h = 0 THEN <<>> ELSE CarrierList(log, h + 1)

\* _check_duplicates(items, item_type): the lines it writes to the debug
\* log.  The duplicates are collected; the log_debug call is commented out.
check_duplicates(items, item_type) ==
    LET dupes == {items[i] : i \in {j \in 1..Len(items) :
                                        \E k \in 1..(j - 1) : items[k] = items[j]}}
    IN  IF dupes # {} THEN <<>> ELSE <<>>

\* "if not pairs" of process_enb
NoFddsFound_Never(fdds) == FALSE

NoFddsFound(fdds) == fdds = <<>>

\* process_sector_cell on the analyzer state
\* draw_power_bars: the keys of grouped_readings, a defaultdict filled in the
\* order of self.readings
RECURSIVE group_keys(_, _)
group_keys(rs, seen) ==
    IF rs = <<>> THEN <<>>
    ELSE LET key == <<Head(rs).branch, Head(rs).port>>
         IN  IF key \in seen THEN group_keys(Tail(rs), seen)
             ELSE <<key>> \o group_keys(Tail(rs), seen \cup {key})

\* draw_power_bars: grouped_readings[(reading.branch, reading.port)].append(reading)
\* for reading in self.readings; one subplot per item, drawn from its list
grouped_readings(rs) ==
    LET keys == group_keys(rs, {})
    IN  [i \in 1..Len(keys) |->
            [key |-> keys[i],
             readings |-> SelectSeq(rs, LAMBDA r : <<r.branch, r.port>> = keys[i])]]

\* st = [readings, times, rendered, processed, log, ok, raised];
\* faults: the targets for which the plot library raises in draw_power_bars
process_sector_cell(st, sector, cell, contents, faults) ==
    LET called == [st EXCEPT !.processed = Append(@, <<sector, cell>>)]
    IN  IF contents = <<>>
        THEN [called EXCEPT !.ok = FALSE]
        ELSE LET log == TextOf(contents)
                 times == StoreStopfileTime(st.times, log, sector)
                 raw == parse_prb_data(sector, cell, log)
                 samples == calculate_samples(times, sector)
                 calibrated == [k \in 1..Len(raw) |->
                                  [raw[k] EXCEPT !.power = calculate_power(@, samples)]]
             IN  IF samples = 0
                 THEN [called EXCEPT !.readings = raw, !.times = times, !.ok = FALSE]
                 ELSE IF calibrated = <<>>
                 THEN \* "No readings to display"
                      [called EXCEPT !.readings = calibrated, !.times = times]
                 ELSE IF <<sector, cell>> \in faults
                 THEN [called EXCEPT !.readings = calibrated, !.times = times,
                                     !.raised = TRUE]
                 ELSE [called EXCEPT !.readings = calibrated, !.times = times,
                                     !.rendered = Append(@, [sc |-> sector,
                                                             cell |-> calibrated[1].cell,
                                                             readings |-> calibrated,
                                                             groups |->
                                                               grouped_readings(calibrated)])]

\* a loop over targets with no try of its own: an exception leaves it
RECURSIVE ProcessAll(_, _, _, _)
ProcessAll(st, targets, contents, faults) ==
    IF targets = <<>> \/ st.raised THEN st
    ELSE ProcessAll(process_sector_cell(st, Head(targets)[1], Head(targets)[2],
                                        contents, faults),
                    Tail(targets), contents, faults)

\* the targets of one pair: those get_available_sc gives for '*'
TargetsOf(pair, log) ==
    LET scs == get_available_sc(log, pair[2])
    IN  IF pair[1] = "*" THEN [k \in 1..Len(scs) |-> <<scs[k], pair[2]>>]
        ELSE <<pair>>

\* the (sector, cell) targets a run over the pairs has to visit
RECURSIVE Expand(_, _)
Expand(pairs, log) ==
    IF pairs = <<>> THEN <<>>
    ELSE TargetsOf(Head(pairs), log) \o Expand(Tail(pairs), log)

\* one pair of either loop: get_available_sc for '*', then its targets
ProcessPair(st, pair, contents, faults) ==
    LET log == TextOf(contents)
        scanned == IF pair[1] = "*"
                   THEN [st EXCEPT !.log = @ \o check_duplicates(
                                                  sector_carriers_found(log, pair[2]),
                                                  "Sector Carrier")]
                   ELSE st
    IN  ProcessAll(scanned, TargetsOf(pair, log), contents, faults)

\* the loop of process_all_pairs: try/except around each pair
RECURSIVE PairsLoop(_, _, _, _)
PairsLoop(st, pairs, contents, faults) ==
    IF pairs = <<>> THEN st
    ELSE LET after == ProcessPair(st, Head(pairs), contents, faults)
             caught == IF after.raised
                       THEN [after EXCEPT !.raised = FALSE, !.ok = FALSE]
                       ELSE after
         IN  PairsLoop(caught, Tail(pairs), contents, faults)

\* the loop of process_enb: no try inside, the exception reaches the
\* handler of process_enb
RECURSIVE EnbLoop(_, _, _, _)
EnbLoop(st, pairs, contents, faults) ==
    IF pairs = <<>> \/ st.raised THEN st
    ELSE EnbLoop(ProcessPair(st, Head(pairs), contents, faults),
                 Tail(pairs), contents, faults)

\* the targets of a run for which draw_power_bars may fail
Faults(targets) == SUBSET {targets[k] : k \in 1..Len(targets)}

\* the rest of process_enb / process_all_pairs once read_logfile returned True
ProcessTargets ==
    /\ pc = "process_targets"
    /\ \E faults \in Faults(Expand(IF mode = "enb"
                                     THEN [k \in 1..Len(get_available_fdd(TextOf(logfile_contents)))
                                             |-> <<"*", get_available_fdd(TextOf(logfile_contents))[k]>>]
                                     ELSE sector_cell_pairs,
                                     TextOf(logfile_contents))) :
       LET log == TextOf(logfile_contents)
           fdds == get_available_fdd(log)
           st0 == [readings |-> readings, times |-> sector_stopfile_times,
                   rendered |-> rendered, processed |-> processed,
                   log |-> IF mode = "enb"
                           THEN dup_log \o check_duplicates(fdds_found(log), "FDD")
                           ELSE dup_log,
                   ok |-> TRUE, raised |-> FALSE]
           st == IF mode = "enb"
                 THEN IF NoFddsFound(fdds) THEN [st0 EXCEPT !.ok = FALSE]
                      ELSE EnbLoop(st0, [k \in 1..Len(fdds) |-> <<"*", fdds[k]>>],
                                   logfile_contents, faults)
                 ELSE PairsLoop(st0, sector_cell_pairs, logfile_contents, faults)
       IN  /\ result' = IF st.ok /\ ~st.raised THEN "True" ELSE "False"
           /\ readings' = st.readings
           /\ sector_stopfile_times' = st.times
           /\ rendered' = st.rendered
           /\ processed' = st.processed
           /\ dup_log' = st.log
    /\ pc' = "idle"
    /\ UNCHANGED <<ssh, sane_channel, channel, output, diag, clock, last_output_time,
                   reading, sleeping, out, mode, remote_user, log_path,
                   logfile_contents, have_contents, opened, sent, sinceWait,
                   wire, stage, echoes, banner, served, resp, dirExists, rfile, promptShape, malformed,
                   sector_cell_pairs, ensured, parseVars, calcVars, configVars>>

\* ========================================================== specifications
\* after MainWindow.__init__: SANE(self), SpectralAnalyzer(self.sane)
Constructed ==
    /\ ssh = FALSE
    /\ sane_channel = 0
    /\ channel = 0
    /\ output = <<>>
    /\ diag = <<>>
    /\ clock = 0
    /\ last_output_time = 0
    /\ pc = "idle"
    /\ reading = FALSE
    /\ sleeping = FALSE
    /\ out = <<>>
    /\ mode = "enb"
    /\ remote_user = ""
    /\ log_path = 0
    /\ logfile_contents = <<>>
    /\ have_contents = TRUE
    /\ result = "none"
    /\ opened = 0
    /\ sent = [c \in Channels |-> <<>>]
    /\ sinceWait = [c \in Channels |-> 0]
    /\ wire = [c \in Channels |-> <<>>]
    /\ stage = [c \in Channels |-> 0]
    /\ echoes = TRUE
    /\ banner = [c \in Channels |-> 0]
    /\ served = [c \in Channels |-> 0]
    /\ resp = [c \in Channels |-> <<>>]
    /\ dirExists = FALSE
    /\ rfile = [r \in Channels |-> <<>>]
    /\ promptShape = "unset"
    /\ sector_cell_pairs = <<>>
    /\ readings = <<>>
    /\ sector_stopfile_times = NoTimes
    /\ rendered = <<>>
    /\ processed = <<>>
    /\ dup_log = <<>>
    /\ ensured = FALSE
    /\ malformed = FALSE

\* no configuration check in progress
ConfigIdle ==
    /\ enb_id = <<>>
    /\ command = <<>>
    /\ config_pc = "done"

\* no calibration check in progress
CalcIdle ==
    /\ calc_stamp = NoTime
    /\ calc_power = 0
    /\ calc_samples = 0
    /\ calc_dbm = [dbm |-> "none"]
    /\ calc_pc = "done"

Init ==
    /\ Constructed
    /\ input_text = <<>>
    /\ target_sc = "*"
    /\ target_cell = "C1"
    /\ parsed = FALSE
    /\ CalcIdle
    /\ ConfigIdle

Next ==
    \/ Authenticate
    \/ Analyze
    \/ WaitForPrompt
    \/ TickClock
    \/ SendSelection
    \/ SendNeid
    \/ Bind
    \/ StartProcess("enb", <<>>)
    \/ \E pairs \in PairLists : StartProcess("pairs", pairs)
    \/ read_channel_output
    \/ read_logfile_loop
    \/ Wake
    \/ GotUser
    \/ CheckedDirectory
    \/ MadeDirectory
    \/ GotCommandOutput
    \/ StoreLogfile
    \/ ProcessTargets
    \/ \E c \in Channels : RemoteBanner(c)
    \/ \E c \in Channels : RemoteServe(c)
    \/ \E c \in Channels : RemoteEmit(c)

Spec == Init /\ [][Next]_vars

\* The GUI thread keeps running and the clock keeps going; nothing is assumed
\* of the remote side.
ClientStep ==
    \/ WaitForPrompt \/ SendSelection \/ SendNeid \/ Bind
    \/ StartProcess("enb", <<>>) \/ (\E pairs \in PairLists : StartProcess("pairs", pairs))
    \/ read_channel_output \/ read_logfile_loop \/ Wake \/ GotUser
    \/ CheckedDirectory \/ MadeDirectory \/ GotCommandOutput \/ StoreLogfile
    \/ ProcessTargets

FairSpec == Spec /\ WF_vars(TickClock) /\ WF_vars(ClientStep)

\* Session establishment alone: the analyses of one GUI session as far as
\* sane_select and the entry of processing, the remote side in its login
\* dialogue.
SelectNext ==
    \/ Authenticate
    \/ Analyze
    \/ WaitForPrompt
    \/ TickClock
    \/ SendSelection
    \/ SendNeid
    \/ Bind
    \/ StartProcess("enb", <<>>)
    \/ \E pairs \in PairLists : StartProcess("pairs", pairs)
    \/ \E c \in Channels : RemoteBanner(c)

SelectSpec == Init /\ [][SelectNext]_vars

\* ------------------------------------------- one more analysis of a session
\* The log of an earlier analysis: the cell with both sector carriers, a
\* sample, branch and port of each, and a later timestamp.
EarlierLog ==
    <<CellLine("C1"), ScRefLine("S1"), ScRefLine("S2"),
      PrbLine("S1", 1, 1, 6), BranchLine("S1", 1, "A", "1"),
      PortLine("A", "1", FALSE, "1", "A"),
      PrbLine("S2", 1, 0, 9), BranchLine("S2", 1, "B", "1"),
      PortLine("B", "1", TRUE, "2", "C"), TimeLine(2, 2)>>

\* what process_enb left in the analyzer after that log
EarlierRun ==
    EnbLoop([readings |-> <<>>, times |-> NoTimes, rendered |-> <<>>,
             processed |-> <<>>, log |-> <<>>, ok |-> TRUE, raised |-> FALSE],
            << <<"*", "C1">> >>, Tagged(6, "cat", "log", EarlierLog), {})

\* An analysis has run on channel Earlier, all of its output read; the
\* session has one analysis left.
RerunInit ==
    /\ ssh = TRUE
    /\ sane_channel = Earlier
    /\ channel = 0
    /\ output = <<>>
    /\ diag = <<>>
    /\ clock = 0
    /\ last_output_time = 0
    /\ pc = "idle"
    /\ reading = FALSE
    /\ sleeping = FALSE
    /\ out = <<>>
    /\ mode = "enb"
    /\ remote_user = "user"
    /\ log_path = Earlier
    /\ logfile_contents = Tagged(6, "cat", "log", EarlierLog)
    /\ have_contents = TRUE
    /\ result = "True"
    /\ opened = MaxRuns - 1
    /\ sent = [c \in Channels |->
                 IF c = Earlier
                 THEN <<Cmd("5", 0), Cmd("neid", 0), Cmd("nl", 0), Cmd("test", 0),
                        Cmd("amos", Earlier), Cmd("cat", Earlier)>>
                 ELSE <<>>]
    /\ sinceWait = [c \in Channels |-> 0]
    /\ wire = [c \in Channels |-> <<>>]
    /\ stage = [c \in Channels |-> IF c = Earlier THEN 3 ELSE 0]
    /\ echoes \in BOOLEAN
    /\ banner = [c \in Channels |-> 0]
    /\ served = [c \in Channels |-> IF c = Earlier THEN 6 ELSE 0]
    /\ resp = [c \in Channels |-> <<>>]
    /\ dirExists \in BOOLEAN
    /\ rfile = [r \in Channels |-> IF r = Earlier THEN EarlierLog ELSE <<>>]
    /\ promptShape = "user"
    /\ malformed = FALSE
    /\ sector_cell_pairs = <<>>
    /\ readings = EarlierRun.readings
    /\ sector_stopfile_times = EarlierRun.times
    /\ rendered = EarlierRun.rendered
    /\ processed = EarlierRun.processed
    /\ dup_log = EarlierRun.log
    /\ ensured = TRUE
    /\ input_text = <<>>
    /\ target_sc = "*"
    /\ target_cell = "C1"
    /\ parsed = FALSE
    /\ CalcIdle
    /\ ConfigIdle

RerunNext ==
    \/ Analyze
    \/ WaitForPrompt
    \/ TickClock
    \/ SendSelection
    \/ SendNeid
    \/ Bind
    \/ StartProcess("enb", <<>>)
    \/ \E pairs \in PairLists : StartProcess("pairs", pairs)
    \/ read_channel_output
    \/ read_logfile_loop
    \/ Wake
    \/ GotUser
    \/ CheckedDirectory
    \/ MadeDirectory
    \/ GotCommandOutput
    \/ StoreLogfile
    \/ ProcessTargets
    \/ \E c \in Channels : RemoteBanner(c)
    \/ \E c \in Channels : RemoteServe(c)
    \/ \E c \in Channels : RemoteEmit(c)

RerunSpec == RerunInit /\ [][RerunNext]_vars

\* ------------------------------------------------- the parser on its own
\* parse_prb_data called on a freshly constructed analyzer, for every text of
\* at most MaxLines body lines, with or without the cell's header, and every
\* target sector carrier.
BodyLines == SampleLines \cup BranchLines \cup PortLines

Texts ==
    { h \o b : h \in {<<>>, CellBlock},
               b \in UNION { [1..n -> BodyLines] : n \in 0..MaxLines } }

ParseInit ==
    /\ Constructed
    /\ input_text \in Texts
    /\ target_sc \in Sectors \cup {"*"}
    /\ target_cell = "C1"
    /\ parsed = FALSE
    /\ CalcIdle
    /\ ConfigIdle

ParseStep ==
    /\ ~parsed
    /\ sector_stopfile_times' = StoreStopfileTime(sector_stopfile_times, input_text, target_sc)
    /\ readings' = parse_prb_data(target_sc, target_cell, input_text)
    /\ parsed' = TRUE
    /\ UNCHANGED <<sessionVars, sector_cell_pairs, rendered, processed, dup_log, ensured,
                   input_text, target_sc, target_cell, calcVars, configVars>>

ParseSpec == ParseInit /\ [][ParseStep]_vars

\* --------------------------------------------- target processing on its own
\* The part of process_enb / process_all_pairs that follows a successful
\* read_logfile, for every stored log made of at most MaxBlocks blocks of
\* AMOS output: the session is in the state in which the log of run 1 has
\* just been read over channel 1.
TopoC1Dup == <<CellLine("C1"), ScRefLine("S1"), ScRefLine("S1")>>
TopoC2 == <<CellLine("C2"), ScRefLine("S2")>>
MeasS1 == <<PrbLine("S1", 1, 0, 5), BranchLine("S1", 1, "A", "1"),
            PortLine("A", "1", FALSE, "1", "A")>>
MeasS2 == <<PrbLine("S2", 1, 0, 9), BranchLine("S2", 1, "B", "1"),
            PortLine("B", "1", TRUE, "2", "C")>>
Stamp == <<TimeLine(1, 1)>>
\* a further sample of S1's report 1, for the block above or below MeasS1
MeasS1High == <<PrbLine("S1", 1, 1, 6)>>

LogBlocks == {CellBlock, TopoC1Dup, TopoC2, MeasS1, MeasS2, Stamp, MeasS1High}

RECURSIVE Concat(_)
Concat(blocks) == IF blocks = <<>> THEN <<>> ELSE Head(blocks) \o Concat(Tail(blocks))

ProcessLogs == { Concat(bs) : bs \in UNION { [1..n -> LogBlocks] : n \in 0..MaxBlocks } }

\* the pair lists set_pairs_and_enbid may have stored
RunPairLists ==
    PairLists \cup { << <<"S1", "C1">>, <<"S2", "C1">> >>,
                     << <<"*", "C1">>, <<"S2", "C2">> >> }

ProcessInit ==
    /\ ssh = TRUE
    /\ sane_channel = 1
    /\ channel = 0
    /\ output = <<>>
    /\ diag = <<>>
    /\ clock = 0
    /\ last_output_time = 0
    /\ pc = "process_targets"
    /\ reading = FALSE
    /\ sleeping = FALSE
    /\ out = <<>>
    /\ remote_user = "user"
    /\ log_path = 1
    /\ have_contents = TRUE
    /\ result = "none"
    /\ opened = 1
    /\ sent = [c \in Channels |->
                 IF c = 1 THEN <<Cmd("5", 0), Cmd("neid", 0), Cmd("nl", 0), Cmd("test", 0),
                                 Cmd("amos", 1), Cmd("cat", 1)>>
                 ELSE <<>>]
    /\ sinceWait = [c \in Channels |-> 0]
    /\ wire = [c \in Channels |-> <<>>]
    /\ stage = [c \in Channels |-> IF c = 1 THEN 3 ELSE 0]
    /\ echoes = FALSE
    /\ banner = [c \in Channels |-> 0]
    /\ served = [c \in Channels |-> IF c = 1 THEN 6 ELSE 0]
    /\ resp = [c \in Channels |-> <<>>]
    /\ dirExists = TRUE
    /\ promptShape = "user"
    /\ \E text \in ProcessLogs :
          /\ rfile = [r \in Channels |-> IF r = 1 THEN text ELSE <<>>]
          /\ logfile_contents = Tagged(6, "cat", "log", text)
    /\ \/ mode = "enb" /\ sector_cell_pairs = <<>>
       \/ mode = "pairs" /\ sector_cell_pairs \in RunPairLists
    /\ readings = <<>>
    /\ sector_stopfile_times = NoTimes
    /\ rendered = <<>>
    /\ processed = <<>>
    /\ dup_log = <<>>
    /\ ensured = TRUE
    /\ malformed = FALSE
    /\ input_text = <<>>
    /\ target_sc = "*"
    /\ target_cell = "C1"
    /\ parsed = FALSE
    /\ CalcIdle
    /\ ConfigIdle

ProcessSpec == ProcessInit /\ [][ProcessTargets]_vars

\* ------------------------------------------------ calibration on its own
\* calculate_samples on a stored stopfile time and calculate_power on a raw
\* power and the sample count it gave, on a freshly constructed analyzer:
\* every minute and second of the hour, two hours and two dates, and raw
\* powers below, at and above 0.
Dates == {250109, 250110}
Hours == {8, 23}
Minutes == 0..59
Seconds == 0..59
Powers == {0 - 1, 0, 1, 5, 1000}

Stamps ==
    {NoTime} \cup { StampLine(d, h, m, s) : d \in Dates, h \in Hours,
                                             m \in Minutes, s \in Seconds }

CalcInit ==
    /\ Constructed
    /\ input_text = <<>>
    /\ target_sc = "*"
    /\ target_cell = "C1"
    /\ parsed = FALSE
    /\ calc_stamp \in Stamps
    /\ calc_power \in Powers
    /\ calc_samples = 0
    /\ calc_dbm = [dbm |-> "none"]
    /\ calc_pc = "start"
    /\ ConfigIdle

\* self.sector_stopfile_times[sector] = <stamp>; calculate_samples(sector)
CalcSamples ==
    /\ calc_pc = "start"
    /\ sector_stopfile_times' = [sector_stopfile_times EXCEPT !["S1"] = calc_stamp]
    /\ calc_samples' = calculate_samples(sector_stopfile_times', "S1")
    /\ calc_pc' = "sampled"
    /\ UNCHANGED <<sessionVars, sector_cell_pairs, readings, rendered, processed, dup_log,
                   ensured, parseVars, configVars, calc_stamp, calc_power, calc_dbm>>

\* calculate_power(raw_power, samples)
CalcPower ==
    /\ calc_pc = "sampled"
    /\ calc_dbm' = calculate_power(calc_power, calc_samples)
    /\ calc_pc' = "done"
    /\ UNCHANGED <<sessionVars, analysisVars, parseVars, configVars, calc_stamp, calc_power,
                   calc_samples>>

CalcSpec == CalcInit /\ [][CalcSamples \/ CalcPower]_vars

\* ------------------------------------ target configuration and the commands
\* set_pairs_and_enbid, the assignment of enb_id by analyze and the two
\* command builders on their own.  Ids are sequences of characters.
Digits == {"0", "1", "2", "3", "4", "5", "6", "7", "8", "9"}

\* str.isdigit()
isdigit(id) == id # <<>> /\ \A k \in 1..Len(id) : id[k] \in Digits

\* str.startswith(prefix)
startswith(id, prefix) ==
    Len(prefix) <= Len(id) /\ SubSeq(id, 1, Len(prefix)) = prefix

EnbA == <<"1", "2", "3", "4", "5", "6">>
EnbB == <<"6", "5", "4", "3", "2", "1">>
EnbIds == {<<>>, EnbA, EnbB, <<"1", "2", "3", "4", "5">>, <<"1", "2", "3", "4", "5", "x">>}

CellA1 == EnbA \o <<"_", "1">>
CellA2 == EnbA \o <<"_", "2">>
CellB1 == EnbB \o <<"_", "1">>

\* the pair lists a caller may pass
ConfigPairLists ==
    { <<>>,
      << <<"S1", CellA1>> >>,
      << <<"*", CellA1>> >>,
      << <<"S1", CellA1>>, <<"S2", CellA2>> >>,
      << <<"S1", CellA1>>, <<"S2", CellA1>> >>,
      << <<"*", CellA1>>, <<"S2", CellA2>> >>,
      << <<"S1", CellA1>>, <<"S2", CellB1>> >>,
      << <<"S1", CellB1>> >> }

\* set_enb_id(enb, SC_FDD_PAIRS) raises ValueError
set_enb_id_raises(pairs, enb) ==
    \/ enb = <<>> \/ Len(enb) # 6 \/ ~isdigit(enb)
    \/ pairs = <<>>
    \/ \E k \in 1..Len(pairs) : ~startswith(pairs[k][2], enb)

\* set_pairs_and_enbid(pairs, enb_id)
SetPairsAndEnbid(pairs, enb) ==
    /\ config_pc = "start"
    /\ sector_cell_pairs' = pairs
    /\ IF set_enb_id_raises(sector_cell_pairs', enb)
       THEN /\ UNCHANGED enb_id
            /\ config_pc' = "rejected"
       ELSE /\ enb_id' = enb
            /\ config_pc' = "pairs_set"
    /\ UNCHANGED <<sessionVars, readings, sector_stopfile_times, rendered, processed,
                   dup_log, ensured, parseVars, calcVars, command>>

\* analyze without cell ids: the id has six digits, self.analyzer.enb_id = enb_id
SetEnbOnly(enb) ==
    /\ config_pc = "start"
    /\ Len(enb) = 6 /\ isdigit(enb)
    /\ enb_id' = enb
    /\ config_pc' = "enb_set"
    /\ UNCHANGED <<sessionVars, analysisVars, parseVars, calcVars, command>>

\* the pieces of a command text: fixed text, the element id, the user's
\* directory, the seed, and 'ma active_cells eutrancellfdd.{fdd} operationalstate 1'
Text(t) == [text |-> t]
ElementId(id) == [enb |-> id]
CellFilter(fdd) == [filter |-> fdd]

\* '; '.join(cell_filter)
RECURSIVE JoinFilters(_)
JoinFilters(fdds) ==
    IF fdds = <<>> THEN <<>>
    ELSE IF Len(fdds) = 1 THEN <<CellFilter(fdds[1])>>
    ELSE <<CellFilter(fdds[1]), Text("; ")>> \o JoinFilters(Tail(fdds))

\* the command up to its cell filter and after it
CommandHead(enb, user, seed) ==
    <<Text("amos "), ElementId(enb), Text(" l+ /home/shared/"), [user |-> user],
      Text("/spec_an_gui/"), [seed |-> seed],
      Text(".log; func ref_loop; ... done; endfunc; lt all; mr active_cells;")>>
CommandTail ==
    <<Text("; for $mo in active_cells;ref_loop;done; mr active_cells; l-; pv logfile$;")>>

\* construct_amos_command_enb(seed)
construct_amos_command_enb(enb, user, seed) ==
    CommandHead(enb, user, seed)
    \o <<Text("ma active_cells eutrancellfdd.* operationalstate 1")>>
    \o CommandTail

\* construct_amos_command_sc_fdd(pairs, seed), fdds the set {pair[1] for
\* pair in pairs} in the order its iteration gives
construct_amos_command_sc_fdd(enb, user, fdds, seed) ==
    CommandHead(enb, user, seed) \o JoinFilters(fdds) \o CommandTail

\* the orders in which a set may be iterated
Orders(set) ==
    { f \in [1..Cardinality(set) -> set] : \A a, b \in DOMAIN f : f[a] = f[b] => a = b }

\* run_amos_sc_fdd(self.sector_cell_pairs): cmd = construct_amos_command_sc_fdd(pairs, seed)
ConstructScFdd ==
    /\ config_pc = "pairs_set"
    /\ \E fdds \in Orders({sector_cell_pairs[k][2] : k \in 1..Len(sector_cell_pairs)}) :
          command' = construct_amos_command_sc_fdd(enb_id, remote_user, fdds, "seed")
    /\ config_pc' = "pairs_built"
    /\ UNCHANGED <<sessionVars, analysisVars, parseVars, calcVars, enb_id>>

\* run_amos_enb(self.enb_id): cmd = construct_amos_command_enb(seed)
ConstructEnb ==
    /\ config_pc = "enb_set"
    /\ command' = construct_amos_command_enb(enb_id, remote_user, "seed")
    /\ config_pc' = "enb_built"
    /\ UNCHANGED <<sessionVars, analysisVars, parseVars, calcVars, enb_id>>

\* an analyzer as constructed, or with the pairs and the id of an earlier
\* analysis, the remote user known
ConfigInit ==
    /\ ssh = FALSE
    /\ sane_channel = 0
    /\ channel = 0
    /\ output = <<>>
    /\ diag = <<>>
    /\ clock = 0
    /\ last_output_time = 0
    /\ pc = "idle"
    /\ reading = FALSE
    /\ sleeping = FALSE
    /\ out = <<>>
    /\ mode = "enb"
    /\ remote_user \in {"user", "admin"}
    /\ log_path = 0
    /\ logfile_contents = <<>>
    /\ have_contents = TRUE
    /\ result = "none"
    /\ opened = 0
    /\ sent = [c \in Channels |-> <<>>]
    /\ sinceWait = [c \in Channels |-> 0]
    /\ wire = [c \in Channels |-> <<>>]
    /\ stage = [c \in Channels |-> 0]
    /\ echoes = TRUE
    /\ banner = [c \in Channels |-> 0]
    /\ served = [c \in Channels |-> 0]
    /\ resp = [c \in Channels |-> <<>>]
    /\ dirExists = FALSE
    /\ rfile = [r \in Channels |-> <<>>]
    /\ promptShape = "unset"
    /\ readings = <<>>
    /\ sector_stopfile_times = NoTimes
    /\ rendered = <<>>
    /\ processed = <<>>
    /\ dup_log = <<>>
    /\ ensured = FALSE
    /\ malformed = FALSE
    /\ \/ sector_cell_pairs = <<>> /\ enb_id = <<>>
       \/ sector_cell_pairs = << <<"S1", CellB1>> >> /\ enb_id = EnbB
       \/ sector_cell_pairs = << <<"*", CellA2>> >> /\ enb_id = EnbA
       \/ sector_cell_pairs = << <<"S1", CellA1>>, <<"S2", CellA2>> >> /\ enb_id = EnbA
    /\ command = <<>>
    /\ config_pc = "start"
    /\ input_text = <<>>
    /\ target_sc = "*"
    /\ target_cell = "C1"
    /\ parsed = FALSE
    /\ CalcIdle

ConfigNext ==
    \/ \E pairs \in ConfigPairLists, enb \in EnbIds : SetPairsAndEnbid(pairs, enb)
    \/ \E enb \in EnbIds : SetEnbOnly(enb)
    \/ ConstructScFdd
    \/ ConstructEnb

ConfigSpec == ConfigInit /\ [][ConfigNext]_vars

\* ================================================== what the session owes
\* C1: on a channel at most one text is sent between two prompt waits that
\* found their prompt: no text is sent while an earlier one is not yet
\* awaited.
C1_WaitBetweenSends == \A c \in Channels : sinceWait[c] <= 1

\* C2: once read_logfile has stored logfile_contents, every stored line is
\* output of the 'cat <logfile>' it sent, and what is stored is the file's
\* text (on a terminal that echoes the command, so that the first line is the
\* echo).
C2_LogfileIsCatOutput ==
    (pc = "process_targets" /\ echoes) =>
        /\ \A i \in 1..Len(logfile_contents) :
              /\ logfile_contents[i].of = "cat"
              /\ logfile_contents[i].seq = Len(sent[sane_channel])
        /\ TextOf(logfile_contents) = rfile[log_path]

\* C3: every wait ends, whatever the remote side does: each _wait_for_prompt
\* leaves its state, and the loops of read_channel_output and read_logfile
\* stop reading.
C3_EveryWaitEnds ==
    /\ \A p \in WaitPcs : (pc = p) ~> (pc # p)
    /\ reading ~> ~reading

SelectOrder ==
    {<<"idle", "WaitMenu">>, <<"idle", "selected">>,
     <<"WaitMenu", "SendSelection">>, <<"WaitMenu", "selected">>,
     <<"SendSelection", "WaitNeid">>,
     <<"WaitNeid", "SendNeid">>, <<"WaitNeid", "selected">>,
     <<"SendNeid", "WaitBash">>,
     <<"WaitBash", "Bind">>, <<"WaitBash", "selected">>,
     <<"Bind", "selected">>}

SelectPcs == {"WaitMenu", "SendSelection", "WaitNeid", "SendNeid", "WaitBash", "Bind"}

\* C5: sane_select goes through menu, NEID and shell in this order; '5' is
\* sent with the menu prompt in the buffer, the NEID with the NEID prompt in
\* the buffer, SANE.channel is bound to the new channel with the shell prompt
\* in the buffer; a wait that fails ends sane_select with no channel returned,
\* nothing sent, nothing bound, and nothing is ever sent on a channel that is
\* neither the one being set up nor the bound one.
C5_HandshakeInOrder ==
    [][ /\ (pc' # pc /\ (pc \in SelectPcs \/ pc' \in SelectPcs)) => <<pc, pc'>> \in SelectOrder
        /\ \A c \in Channels :
              sent'[c] # sent[c] =>
                 /\ c \in {channel, sane_channel}
                 /\ c = channel =>
                       /\ Len(sent'[c]) = Len(sent[c]) + 1
                       /\ sent'[c][Len(sent'[c])].text = "5" =>
                              (sent[c] = <<>> /\ Matches("menu", output))
                       /\ sent'[c][Len(sent'[c])].text = "neid" =>
                              (sent[c] = <<Cmd("5", 0)>> /\ Matches("neid", output))
        /\ sane_channel' # sane_channel =>
              /\ sane_channel' = channel
              /\ channel # 0
              /\ Matches("bash", output)
              /\ sent[channel] = <<Cmd("5", 0), Cmd("neid", 0)>>
        /\ (pc \in WaitPcs /\ pc' = "selected") =>
              /\ channel' = 0
              /\ sent' = sent
              /\ sane_channel' = sane_channel ]_vars

\* C5's case: a wait failed after the selection was sent, and sane_select
\* is over with the new channel neither bound nor sent to again
C5_Witness ==
    /\ pc = "selected"
    /\ channel = 0
    /\ sane_channel # opened
    /\ opened > 0
    /\ sent[opened] = <<Cmd("5", 0)>>

\* =================================================== what the parser owes
\* The checked text read line by line, as the specification words it: the
\* sample lines and the branch-reference lines of a report for a target, the
\* port/RRU lines of an (antenna-unit-group, branch).
SampleIdx(sc, r) ==
    {i \in 1..Len(input_text) :
        /\ input_text[i].kind = "prb"
        /\ input_text[i].report = r
        /\ (sc = "*" \/ input_text[i].sector = sc)}

BranchIdx(sc, r) ==
    {i \in 1..Len(input_text) :
        /\ input_text[i].kind = "branch"
        /\ input_text[i].report = r
        /\ (sc = "*" \/ input_text[i].sector = sc)}

PortIdx(g, b) ==
    {i \in 1..Len(input_text) :
        /\ input_text[i].kind = "port"
        /\ input_text[i].au_group = g
        /\ input_text[i].branch = b}

\* the report ids with sample lines for the target
TargetReports(sc) ==
    {input_text[i].report :
        i \in {j \in 1..Len(input_text) :
                  /\ input_text[j].kind = "prb"
                  /\ (sc = "*" \/ input_text[j].sector = sc)}}

ReadingsFor(r) == {k \in 1..Len(readings) : readings[k].interference_report = r}

\* every report of the target has a branch-reference line, and every
\* (antenna-unit-group, branch) those lines name has a port/RRU line
Complete(sc) ==
    \A r \in TargetReports(sc) :
        /\ BranchIdx(sc, r) # {}
        /\ \A i \in BranchIdx(sc, r) :
              PortIdx(input_text[i].au_group, input_text[i].branch) # {}

\* C6: a text with N report ids of the target sector carrier, each with k
\* sample lines, every report with a branch-reference line and every
\* referenced (antenna-unit-group, branch) with a port/RRU line, yields exactly
\* N*k readings, each with branch, port and rru filled in.
C6_ExactlyNTimesK ==
    (parsed /\ target_sc # "*" /\ Complete(target_sc)) =>
        \A k \in 0..Len(input_text) :
            (\A r \in TargetReports(target_sc) :
                 Cardinality(SampleIdx(target_sc, r)) = k)
            => /\ Len(readings) = Cardinality(TargetReports(target_sc)) * k
               /\ \A n \in 1..Len(readings) :
                     /\ readings[n].branch # NoneV
                     /\ readings[n].port # NoneV
                     /\ readings[n].rru # NoneV

\* C7: no two emitted readings agree in sector_carrier, branch, port and
\* prb_num.
C7_PrbUniquePerPort ==
    parsed =>
        \A m, n \in 1..Len(readings) :
            m # n => ~ /\ readings[m].sector_carrier = readings[n].sector_carrier
                       /\ readings[m].branch = readings[n].branch
                       /\ readings[m].port = readings[n].port
                       /\ readings[m].prb_num = readings[n].prb_num

\* C8: the port and the RRU of every reading are those of a port/RRU line
\* whose antenna-unit-group and branch are the ones named on a
\* branch-reference line of the reading's report.
C8_PortOfReferencedBranch ==
    parsed =>
        \A n \in 1..Len(readings) :
            \E i \in BranchIdx(target_sc, readings[n].interference_report) :
                \E j \in PortIdx(input_text[i].au_group, input_text[i].branch) :
                    /\ input_text[j].port = readings[n].port
                    /\ rru_string(input_text[j]) = readings[n].rru

\* the text without the sample and branch-reference lines of other sector
\* carriers than sc
WithoutOthers(sc) ==
    SelectSeq(input_text,
              LAMBDA l : ~(l.kind \in {"prb", "branch"} /\ l.sector # sc))

\* C9: for a target other than the wildcard every reading has a sample line
\* and a branch-reference line of exactly that sector carrier behind it, and
\* the readings are those of the same text without the sample and
\* branch-reference lines of other sector carriers; for the wildcard a report
\* that is emitted is emitted with the sample lines of all sector carriers.
C9_OnlyTargetSectorCarrier ==
    parsed =>
        /\ target_sc # "*" =>
              /\ \A n \in 1..Len(readings) :
                    /\ \E i \in SampleIdx(target_sc, readings[n].interference_report) :
                          /\ input_text[i].prb_num = readings[n].prb_num
                          /\ input_text[i].power = readings[n].power
                    /\ \E i \in BranchIdx(target_sc, readings[n].interference_report) :
                          input_text[i].branch = readings[n].branch
              /\ readings = parse_prb_data(target_sc, target_cell, WithoutOthers(target_sc))
        /\ target_sc = "*" =>
              \A n \in 1..Len(readings) :
                  LET r == readings[n].interference_report
                  IN  Cardinality(ReadingsFor(r)) = Cardinality(SampleIdx("*", r))

\* C9's case: a reading for S1 out of a text in which a later
\* branch-reference line of S2 names the same report id
C9_Witness ==
    /\ parsed
    /\ target_sc = "S1"
    /\ readings # <<>>
    /\ \E i, j \in 1..Len(input_text) :
          /\ i < j
          /\ input_text[i].kind = "branch" /\ input_text[i].sector = "S1"
          /\ input_text[j].kind = "branch" /\ input_text[j].sector = "S2"
          /\ input_text[i].report = input_text[j].report
          /\ input_text[i].report = readings[1].interference_report

\* C10: a report none of whose branch-reference lines leads to a port/RRU
\* line (or that has no branch-reference line) has no reading, and a report
\* all of whose branch-reference lines lead to one has a reading for every
\* sample line, whatever else the text holds.
C10_UnresolvedDroppedOthersKept ==
    parsed =>
        \A r \in TargetReports(target_sc) :
            LET led == {i \in BranchIdx(target_sc, r) :
                           PortIdx(input_text[i].au_group, input_text[i].branch) # {}}
            IN  /\ led = {} => ReadingsFor(r) = {}
                /\ (led # {} /\ led = BranchIdx(target_sc, r)) =>
                       Cardinality(ReadingsFor(r)) = Cardinality(SampleIdx(target_sc, r))

\* ---------------------------------------------------------------------
\* the measurement part of a reading: what the topology check cannot change
Measured(rs) ==
    [k \in 1..Len(rs) |->
        [interference_report |-> rs[k].interference_report,
         prb_num |-> rs[k].prb_num,
         power |-> rs[k].power,
         branch |-> rs[k].branch,
         port |-> rs[k].port,
         rru |-> rs[k].rru]]

\* the lines of a text that are not topology lines
Body(text) == SelectSeq(text, LAMBDA l : l.kind \notin {"cell", "scref"})

\* the same body under a topology block in which the check of sc succeeds
Validated(sc, cell, text) ==
    (IF sc = "*" THEN <<CellLine(cell)>> ELSE <<CellLine(cell), ScRefLine(sc)>>)
    \o Body(text)

\* C11: the topology check is advisory.  Whatever the topology lines of the
\* text say about the target (header missing, target sector carrier not in
\* the cell's list), parse_prb_data runs to its end and the readings it
\* emits have the same (report id, prb index, raw power, branch, port, rru)
\* as on the same body under a topology block in which the check succeeds.
C11_ValidationAdvisory ==
    parsed =>
        /\ MappedCell(target_sc, target_cell,
                      Validated(target_sc, target_cell, input_text)) = target_cell
        /\ Measured(readings)
             = Measured(parse_prb_data(target_sc, target_cell,
                                       Validated(target_sc, target_cell, input_text)))

\* the check failed although the cell's header is there (the target is the
\* second sector carrier of the list), and readings were emitted
C11_Witness ==
    /\ parsed
    /\ target_sc = "S2"
    /\ CellHeaderAt(input_text, target_cell) # 0
    /\ MappedCell(target_sc, target_cell, input_text) = NoneV
    /\ readings # <<>>

\* the sample line a reading was found on names this sector carrier
FoundOn(r, sector) ==
    \E i \in 1..Len(input_text) :
        /\ input_text[i].kind = "prb"
        /\ input_text[i].sector = sector
        /\ input_text[i].report = r.interference_report
        /\ input_text[i].prb_num = r.prb_num
        /\ input_text[i].power = r.power

\* C12: every reading of parse_prb_data(sc, cell, text) carries the target
\* cell's id in cell, in sector_carrier the id of the sector carrier on whose
\* sample line it was found, and in interference_report that line's report
\* id; for every input, a failed topology check and the wildcard target
\* included.
C12_ReadingsCarryIds ==
    parsed =>
        \A k \in 1..Len(readings) :
            /\ readings[k].cell = target_cell
            /\ FoundOn(readings[k], readings[k].sector_carrier)

\* ==================================================== what a run owes
\* a process_* call has returned
RunOver == pc = "idle" /\ result # "none"

StoredLog == TextOf(logfile_contents)

\* the pairs the loop of the run goes over
RunPairs ==
    IF mode = "enb"
    THEN [k \in 1..Len(get_available_fdd(StoredLog)) |->
             <<"*", get_available_fdd(StoredLog)[k]>>]
    ELSE sector_cell_pairs

HasRepeat(seq) == \E i, j \in 1..Len(seq) : i < j /\ seq[i] = seq[j]

\* the topology scan of the run met an id twice: a cell id in
\* get_available_fdd, or a sector carrier id in the first get_available_sc
ScanMetDuplicate ==
    \/ mode = "enb" /\ HasRepeat(fdds_found(StoredLog))
    \/ /\ RunPairs # <<>>
       /\ RunPairs[1][1] = "*"
       /\ HasRepeat(sector_carriers_found(StoredLog, RunPairs[1][2]))

\* C13: when the topology scan finds a sector carrier id or a cell id more
\* than once, the duplicate is written to the debug log, and each distinct
\* id is processed once: no target is handed to process_sector_cell twice
\* and there is at most one drawing for each target processed.
C13_DuplicatesLoggedProcessedOnce ==
    RunOver =>
        /\ ScanMetDuplicate => dup_log # <<>>
        /\ ~HasRepeat(processed)
        /\ Len(rendered) <= Len(processed)

\* C14: process_enb returns False when the stored log holds no cell id, the
\* empty log included: no target is handed to process_sector_cell, nothing
\* is parsed and nothing reaches the plot window.
C14_NoCellIdsIsFailure ==
    (RunOver /\ mode = "enb" /\ get_available_fdd(StoredLog) = <<>>) =>
        /\ result = "False"
        /\ processed = <<>>
        /\ readings = <<>>
        /\ rendered = <<>>

\* a log with measurements and a timestamp but no cell header
C14_Witness ==
    /\ RunOver
    /\ mode = "enb"
    /\ get_available_fdd(StoredLog) = <<>>
    /\ \E i \in 1..Len(StoredLog) : StoredLog[i].kind = "prb"
    /\ \E i \in 1..Len(StoredLog) : StoredLog[i].kind = "time"
    /\ result = "False"

\* the targets the run has to visit
RunTargets == Expand(RunPairs, StoredLog)

\* process_sector_cell returns False for the target: no stored text, or no
\* usable timestamp for its sector carrier
ReturnsFailure(target) ==
    \/ StoredLog = <<>>
    \/ calculate_samples(StoreStopfileTime(NoTimes, StoredLog, target[1]), target[1]) = 0

\* the target has readings to draw
Drawable(target) ==
    /\ ~ReturnsFailure(target)
    /\ parse_prb_data(target[1], target[2], StoredLog) # <<>>

\* draw_power_bars raised for some target of the run
SomeDrawRaised ==
    Len(rendered) < Cardinality({k \in 1..Len(processed) : Drawable(processed[k])})

\* C15: the failure of one target is isolated.  In process_all_pairs and in
\* process_enb, when processing a target returns failure or raises, every
\* remaining target is still processed, the remaining sector carriers of the
\* same wildcard cell included, and the run returns False.
C15_TargetFailureIsolated ==
    (RunOver /\ RunTargets # <<>>) =>
        /\ processed = RunTargets
        /\ ((\E k \in 1..Len(RunTargets) : ReturnsFailure(RunTargets[k])) \/ SomeDrawRaised)
              => result = "False"

\* C17: a connection-level failure aborts the whole batch.  When
\* ensure_connection returns False or no channel is bound, process_enb and
\* process_all_pairs end in failure at once: no command is sent, no read is
\* started, no target is processed and nothing reaches the plot window.
C17_ConnectionFailureAborts ==
    [][ (pc = "selected" /\ pc' # "selected" /\ (~ensured' \/ sane_channel = 0)) =>
            /\ pc' = "idle"
            /\ result' = "False"
            /\ sent' = sent
            /\ ~reading'
            /\ processed' = <<>>
            /\ rendered' = rendered ]_vars

\* a run that failed with a bound channel because the connection could not
\* be ensured: nothing was sent on the channel after the login dialogue
C17_Witness ==
    /\ pc = "idle"
    /\ result = "False"
    /\ ~ensured
    /\ sane_channel # 0
    /\ Len(sent[sane_channel]) = 2
    /\ processed = <<>>

\* C18: read_logfile reports an empty log as a failure: whenever the text
\* captured from 'cat' is empty once its first line (the echo) and its last
\* line (the prompt) are stripped, it returns False; it goes on to target
\* processing only with a stored text that is not empty.
C18_EmptyLogIsFailure ==
    pc = "process_targets" => logfile_contents # <<>>

\* the log the remote AMOS run of this analysis wrote
RemoteLog == rfile[opened]

\* the targets of the run according to that log
RemoteTargets ==
    Expand(IF mode = "enb"
           THEN [k \in 1..Len(get_available_fdd(RemoteLog)) |->
                    <<"*", get_available_fdd(RemoteLog)[k]>>]
           ELSE sector_cell_pairs,
           RemoteLog)

\* Nothing failed: the connection was ensured and a channel is bound, the
\* terminal echoes and its prompt names the user, every AMOS run printed its
\* '$logfile' line and wrote a log that is not empty, the log has a timestamp
\* with a sample count other than 0 for every target, and the plot library
\* did not raise.
NothingFailed ==
    /\ ensured
    /\ sane_channel # 0
    /\ promptShape = "user"
    /\ echoes
    /\ ~malformed
    /\ RemoteLog # <<>>
    /\ RemoteTargets # <<>>
    /\ \A k \in 1..Len(RemoteTargets) :
          calculate_samples(StoreStopfileTime(NoTimes, RemoteLog, RemoteTargets[k][1]),
                            RemoteTargets[k][1]) # 0
    /\ ~SomeDrawRaised

\* C16: the success flag is true when nothing failed.  With a bound channel
\* on which the remote side answers every command with well-formed output,
\* process_all_pairs and process_enb run the command, fetch the log, process
\* every target and return True.
C16_SuccessWhenNothingFailed ==
    (RunOver /\ NothingFailed) =>
        /\ result = "True"
        /\ StoredLog = RemoteLog
        /\ processed = RemoteTargets

\* ================================================ what calibration owes
\* the stored stopfile time, a quarter of an hour later
QuarterLater(times) == [times EXCEPT !["S1"].minute = @ + 15]

\* the stored stopfile time with another hour and date
OtherHourAndDate(times) == [times EXCEPT !["S1"].hour = 31 - @, !["S1"].date = 500219 - @]

\* C19: calculate_samples is periodic in the minute with period 15.  For a
\* stored timestamp with minute m in 0..44 and second s in 0..59 the count
\* is the one of minute m + 15 and second s; for every minute and second it
\* is ((m mod 15) * 60 + s) * 1000 / 40 cut to an integer, whatever the hour
\* and the date of the timestamp.
C19_SamplesPeriodicInMinute ==
    (calc_pc # "start" /\ calc_stamp # NoTime) =>
        /\ calc_samples = ((((calc_stamp.minute % 15) * 60) + calc_stamp.second) * 1000) \div 40
        /\ calc_stamp.minute <= 44 =>
              calc_samples = calculate_samples(QuarterLater(sector_stopfile_times), "S1")
        /\ calc_samples = calculate_samples(OtherHourAndDate(sector_stopfile_times), "S1")

\* the last second of a quarter, in its third period: 14 * 60 + 59 seconds
C19_Witness ==
    /\ calc_pc # "start"
    /\ calc_stamp # NoTime
    /\ calc_stamp.minute = 44
    /\ calc_stamp.second = 59
    /\ calc_samples = 22475

\* C20: calculate_power never lets a fault out.  It returns a value for
\* every raw power and sample count: the chart's floor when the sample count
\* is 0 and when the adjusted power is not positive (raw power <= 0 with a
\* positive sample count), the logarithm otherwise.
C20_PowerNeverFaults ==
    calc_pc = "done" =>
        /\ calc_dbm.dbm \in {"chart_min", "10log10"}
        /\ calc_samples = 0 => calc_dbm.dbm = "chart_min"
        /\ (calc_power <= 0 /\ calc_samples > 0) => calc_dbm.dbm = "chart_min"
        /\ (calc_power > 0 /\ calc_samples > 0) =>
              calc_dbm = [dbm |-> "10log10", raw |-> calc_power, samples |-> calc_samples]

\* a raw power of 0 with a positive sample count: log10(0) raises ValueError
C20_Witness ==
    /\ calc_pc = "done"
    /\ calc_power = 0
    /\ calc_samples > 0
    /\ calc_dbm.dbm = "chart_min"

\* C21: for a fixed positive sample count calculate_power is strictly
\* increasing in the raw power over all non-negative raw counter values:
\* raw1 < raw2 implies calculate_power(raw1, n) < calculate_power(raw2, n),
\* also when raw1 is 0.
C21_PowerStrictlyIncreasing ==
    (calc_pc = "done" /\ calc_samples > 0 /\ calc_power >= 0) =>
        \A raw2 \in Powers :
            calc_power < raw2 =>
                dbm_less(calc_dbm, calculate_power(raw2, calc_samples))

\* the number of readings in the groups of one drawing
RECURSIVE GroupedCount(_)
GroupedCount(groups) ==
    IF groups = <<>> THEN 0 ELSE Len(Head(groups).readings) + GroupedCount(Tail(groups))

\* the groups of a drawing split its readings by (branch, port)
Partitioned(d) ==
    /\ GroupedCount(d.groups) = Len(d.readings)
    /\ \A i, j \in 1..Len(d.groups) : d.groups[i].key = d.groups[j].key => i = j
    /\ \A i \in 1..Len(d.groups) :
          \A k \in 1..Len(d.groups[i].readings) :
              LET r == d.groups[i].readings[k]
              IN  <<r.branch, r.port>> = d.groups[i].key
    /\ \A k \in 1..Len(d.readings) :
          \E i \in 1..Len(d.groups) :
              /\ d.groups[i].key = <<d.readings[k].branch, d.readings[k].port>>
              /\ \E j \in 1..Len(d.groups[i].readings) :
                    d.groups[i].readings[j] = d.readings[k]

\* every group of a drawing lists its readings by prb_num ascending
ByPrbNum(d) ==
    \A i \in 1..Len(d.groups) :
        \A j, k \in 1..Len(d.groups[i].readings) :
            j < k => d.groups[i].readings[j].prb_num <= d.groups[i].readings[k].prb_num

\* C22: the grouping draw_power_bars hands to the renderer partitions the
\* finalized readings by (branch, port): every reading is in exactly one
\* group, the one keyed by its own (branch, port), and within each group the
\* readings are ordered by prb_num ascending, whatever the order of the
\* sample lines in the log.
C22_GroupsPartitionSortedByPrb ==
    \A d \in 1..Len(rendered) : Partitioned(rendered[d]) /\ ByPrbNum(rendered[d])

\* the analysis of RerunSpec has come to its end after clear_analysis_state
RerunOver == pc = "idle" /\ opened = MaxRuns /\ ensured

\* the timestamp line of the sector carrier in the log, NoTime without one
StampIn(log, sector) ==
    IF parse_stopfile_time(log, sector) = 0 THEN NoTime
    ELSE log[parse_stopfile_time(log, sector)]

\* the drawings of the analysis of RerunSpec
NewDrawings == (Len(EarlierRun.rendered) + 1)..Len(rendered)

\* C23: the stored stopfile times are cleared at the start of each run.
\* After a run that followed an earlier one, every stored timestamp is a
\* line of the log this run stored, a sector carrier without a timestamp in
\* that log has none stored and nothing drawn, and the sample count in every
\* power drawn by this run is the one of the timestamp of this run's log.
C23_TimingFromCurrentRun ==
    RerunOver =>
        LET log == TextOf(logfile_contents)
        IN  /\ \A s \in DOMAIN sector_stopfile_times :
                  sector_stopfile_times[s] \in {NoTime, StampIn(log, s)}
            /\ \A d \in NewDrawings :
                  /\ StampIn(log, rendered[d].sc) # NoTime
                  /\ \A k \in 1..Len(rendered[d].readings) :
                        LET p == rendered[d].readings[k].power
                        IN  p.dbm = "10log10" =>
                              p.samples =
                                calculate_samples(
                                  [NoTimes EXCEPT ![rendered[d].sc] =
                                                      StampIn(log, rendered[d].sc)],
                                  rendered[d].sc)

\* the earlier run stored a timestamp for S1, this run's log has none: the
\* target S1 was tried and failed, nothing was drawn
C23_Witness ==
    /\ RerunOver
    /\ EarlierRun.times["S1"] # NoTime
    /\ TextOf(logfile_contents) = LogNoStamp
    /\ <<"S1", "C1">> \in {processed[k] : k \in 1..Len(processed)}
    /\ sector_stopfile_times["S1"] = NoTime
    /\ NewDrawings = {}
    /\ result = "False"

\* the command names the element id / has exactly one filter for the cell /
\* names the sector carrier
NamesElement(cmd, id) == \E k \in 1..Len(cmd) : cmd[k] = ElementId(id)
OneFilterFor(cmd, fdd) == Cardinality({k \in 1..Len(cmd) : cmd[k] = CellFilter(fdd)}) = 1
NamesSector(cmd, sc) == \E k \in 1..Len(cmd) : cmd[k] = [sc |-> sc]

\* no piece of the command that is taken from an id holds a line feed
SingleLine(cmd) ==
    \A k \in 1..Len(cmd) :
        /\ "enb" \in DOMAIN cmd[k] =>
              \A c \in 1..Len(cmd[k].enb) : cmd[k].enb[c] # "LF"
        /\ "filter" \in DOMAIN cmd[k] =>
              \A c \in 1..Len(cmd[k].filter) : cmd[k].filter[c] # "LF"

\* C24: the command contains the element id, the sector filter and the
\* cell filter verbatim.  construct_amos_command_sc_fdd(pairs, seed) names
\* the element id, has one cell filter for every distinct cell id of the
\* pairs and names every sector carrier id that is not the wildcard;
\* construct_amos_command_enb names the element id; each command is a
\* single line.
C24_CommandNamesTargets ==
    /\ config_pc = "pairs_built" =>
          /\ NamesElement(command, enb_id)
          /\ \A k \in 1..Len(sector_cell_pairs) :
                /\ OneFilterFor(command, sector_cell_pairs[k][2])
                /\ sector_cell_pairs[k][1] # "*" =>
                      NamesSector(command, sector_cell_pairs[k][1])
          /\ SingleLine(command)
    /\ config_pc = "enb_built" =>
          /\ NamesElement(command, enb_id)
          /\ SingleLine(command)

\* C28: a rejected target configuration leaves the analyzer unchanged.
\* When set_pairs_and_enbid(pairs, enb_id) raises (enb_id not exactly six
\* digits, pairs empty, or a cell id that does not start with enb_id), both
\* sector_cell_pairs and enb_id keep the values they had before the call.
C28_RejectedConfigLeavesState ==
    [][(config_pc = "start" /\ config_pc' = "rejected") =>
          (sector_cell_pairs' = sector_cell_pairs /\ enb_id' = enb_id)]_vars

\* where the GUI thread is while process_enb / process_all_pairs talk to the
\* remote shell or work on its answer
RunPcs == {"enb_user", "sc_user", "enb_dir", "enb_mkdir", "enb_cmd", "sc_cmd",
           "read_logfile", "process_targets"}

\* C25: across the analyses of one SANE instance the channel a run sends on
\* is the channel opened by that run's own sane_select: a run never goes on
\* with a channel an earlier analysis left bound when its own sane_select
\* failed.
C25_RunSendsOnOwnChannel ==
    (opened = MaxRuns /\ pc \in RunPcs) =>
        /\ sane_channel = opened
        /\ Len(sent[Earlier]) = 6

\* one application of the calibration to a raw counter, the sample count not 0
OnceCalibrated(raw_power, samples) ==
    IF raw_power <= 0 THEN [dbm |-> "chart_min", raw |-> 0, samples |-> 0]
    ELSE [dbm |-> "10log10", raw |-> raw_power, samples |-> samples]

\* the drawing shows the readings parsed for the target from the log, each
\* power calibrated once with the sample count of the target's sector carrier
DrawnFrom(d, target, log) ==
    LET raw == parse_prb_data(target[1], target[2], log)
        samples == calculate_samples(StoreStopfileTime(NoTimes, log, target[1]), target[1])
    IN  /\ d.sc = target[1]
        /\ samples # 0
        /\ Len(d.readings) = Len(raw)
        /\ \A i \in 1..Len(raw) :
              /\ [d.readings[i] EXCEPT !.power = raw[i].power] = raw[i]
              /\ d.readings[i].power = OnceCalibrated(raw[i].power, samples)

\* C26: every reading handed to the renderer has been calibrated exactly
\* once.  At each call of draw_power_bars from process_sector_cell the power
\* of every reading is the result of one application of calculate_power to
\* the raw counter parsed for that reading, never the raw counter and never
\* a value calibrated twice, whatever targets came before it in the run.
C26_CalibratedExactlyOnce ==
    \A d \in 1..Len(rendered) :
        \E k \in 1..Len(processed) : DrawnFrom(rendered[d], processed[k], StoredLog)

\* a run that drew two targets one after the other, the second one with a
\* power above the floor
C26_Witness ==
    /\ pc = "idle"
    /\ Len(rendered) = 2
    /\ rendered[1].sc # rendered[2].sc
    /\ rendered[2].readings[1].power.dbm = "10log10"

\* parse_prb_data resolves no reading for the target
NothingParsed(target) == parse_prb_data(target[1], target[2], StoredLog) = <<>>

\* C27: process_sector_cell reports success only if at least one reading
\* was handed to the renderer.  When the parse resolves no reading for a
\* target, the target is reported failed and the result of the run is False.
C27_NoReadingsIsFailure ==
    (RunOver /\ \E k \in 1..Len(processed) : NothingParsed(processed[k])) =>
        result = "False"

\* C29: before the whole-element AMOS command is sent, the remote log
\* directory exists.  In run_amos_enb, whenever the directory is absent,
\* check_directory_exists returns False and 'mkdir -p' is sent and awaited
\* before the AMOS command, also when the terminal echoes the text it is sent.
C29_DirectoryBeforeCommand ==
    pc = "enb_cmd" => dirExists

\* C30: a sample count of 0 signals only a missing timestamp.  Whenever
\* parse_stopfile_time found and stored a timestamp, calculate_samples
\* returns a positive count, so that process_sector_cell does not reject the
\* target with 'Invalid sample count', for every minute 0..59 and second 0..59.
C30_StoredStampGivesSamples ==
    (calc_pc # "start" /\ calc_stamp # NoTime) => calc_samples > 0

====
